---- MODULE Spec2Model ----
(***************************************************************************)
(* Faxbot API (api/app/main.py): outbound fax jobs, background dispatch,   *)
(* provider webhooks, tokenized PDF access, the per-key rate limiter and   *)
(* the artifact retention sweep, as a state machine.                       *)
(*                                                                         *)
(* Python None is NULL for strings and NoInt for integers / datetimes.     *)
(* The clock `now` counts seconds.                                         *)
(***************************************************************************)
EXTENDS Integers, Sequences, FiniteSets, Bags, TLC

VARIABLES
    settings,       \* config.settings, the process-wide Settings instance
    now,            \* wall clock (time.time() / datetime.utcnow()), seconds
    api_keys,       \* rows of the API key table read by verify_db_key
    rate_buckets,   \* main._rate_buckets: bucket_key -> [window, count]
    jobs,           \* table fax_jobs: the FaxJob rows, job i at index i
    tasks,          \* background dispatch task of each job
    files,          \* files in settings.fax_data_dir / storage: <<kind, id>>
    events,         \* table InboundEvent: <<provider_sid, event_type>>
    inbound,        \* table inbound_faxes: sequence of InboundFax rows
    handlers,       \* inbound webhook handlers suspended on the PDF fetch
    resp,           \* the HTTP response of the latest request
    hist            \* bookkeeping of deliveries, used only by properties

vars == <<settings, now, api_keys, rate_buckets, jobs, tasks, files,
          events, inbound, handlers, resp, hist>>

NULL == "NULL"
NoInt == -1
NoInfo == [rc |-> 0, key_id |-> NULL, scopes |-> {}]

(***************************************************************************)
(* Bounds of the model.                                                    *)
(***************************************************************************)
MaxJobs == 2
MaxInbound == 1
MaxRequests == 4
MaxDeliveries == 2
MaxWebhookJobs == 1
MaxTicks == 3
MaxKeyedRequests == 1
MaxRows == 1

\* program constants
WindowSeconds == 60
SecondsPerMinute == 60
SecondsPerDay == 86400
MinPhoneDigits == 6
MaxPhoneDigits == 20

(***************************************************************************)
(* Settings (config.py).                                                   *)
(***************************************************************************)
DefaultSettings ==
    [ fax_disabled |-> FALSE,
      api_key |-> "",
      require_api_key |-> FALSE,
      fax_backend |-> "phaxio",
      phaxio_api_key |-> "",
      phaxio_api_secret |-> "",
      phaxio_verify_signature |-> TRUE,
      sinch_configured |-> FALSE,
      pdf_token_ttl_minutes |-> 60,
      artifact_ttl_days |-> 0,
      max_requests_per_minute |-> 0,
      inbound_enabled |-> FALSE,
      inbound_retention_days |-> 30,
      inbound_token_ttl_minutes |-> 60,
      phaxio_inbound_verify_signature |-> TRUE,
      sinch_inbound_verify_signature |-> TRUE,
      sinch_inbound_basic_user |-> "",
      sinch_inbound_basic_pass |-> "",
      sinch_inbound_hmac_secret |-> "",
      inbound_list_rpm |-> 30,
      inbound_get_rpm |-> 60 ]

Max(a, b) == IF a >= b THEN a ELSE b

(***************************************************************************)
(* Authorization (require_api_key, _has_scope).                            *)
(***************************************************************************)
\* a lookup that does not look at revoked_at
verify_db_key_IgnoresRevoked(x_api_key) ==
    LET hit == { k \in api_keys :
                   /\ k.token = x_api_key
                   /\ (k.expires_at = NoInt \/ k.expires_at > now) }
    IN IF x_api_key = NULL \/ hit = {}
       THEN NoInfo
       ELSE LET k == CHOOSE k \in hit : TRUE
            IN [rc |-> 200, key_id |-> k.key_id, scopes |-> k.scopes]

\* auth.verify_db_key: the row of a presented token, unless the token is
\* unknown, revoked or expired
verify_db_key(x_api_key) ==
    LET hit == { k \in api_keys :
                   /\ k.token = x_api_key
                   /\ ~k.revoked
                   /\ (k.expires_at = NoInt \/ k.expires_at > now) }
    IN IF x_api_key = NULL \/ hit = {}
       THEN NoInfo
       ELSE LET k == CHOOSE k \in hit : TRUE
            IN [rc |-> 200, key_id |-> k.key_id, scopes |-> k.scopes]

Anonymous == [rc |-> 200, key_id |-> NULL, scopes |-> {}]
Rejected(code) == [rc |-> code, key_id |-> NULL, scopes |-> {}]

\* an authorization that grants the anonymous principal whenever the
\* enforcement flag is off
require_api_key_FlagOnly(x_api_key) ==
    IF settings.api_key # "" /\ x_api_key = settings.api_key
    THEN [rc |-> 200, key_id |-> "env", scopes |-> {"*"}]
    ELSE IF verify_db_key(x_api_key) # NoInfo
    THEN verify_db_key(x_api_key)
    ELSE IF settings.require_api_key
    THEN Rejected(401)
    ELSE Anonymous

\* require_api_key: the principal of a request; Anonymous is `return None`
require_api_key(x_api_key) ==
    IF settings.api_key # "" /\ x_api_key = settings.api_key
    THEN [rc |-> 200, key_id |-> "env", scopes |-> {"*"}]
    ELSE IF verify_db_key(x_api_key) # NoInfo
    THEN verify_db_key(x_api_key)
    ELSE IF settings.require_api_key \/ settings.api_key # ""
    THEN Rejected(401)
    ELSE Anonymous

\* a scope test without the wildcard
_has_scope_NoWildcard(info, required) ==
    /\ info # Anonymous
    /\ required \in info.scopes

_has_scope(info, required) ==
    /\ info # Anonymous
    /\ ("*" \in info.scopes \/ required \in info.scopes)

\* an admin gate that admits every valid database key
require_admin_AnyValidKey(x_api_key) ==
    IF settings.api_key # "" /\ x_api_key = settings.api_key
    THEN 200
    ELSE IF verify_db_key(x_api_key) = NoInfo
    THEN 401
    ELSE 200

\* require_admin: 200 when the request is admitted, else the status raised
require_admin(x_api_key) ==
    IF settings.api_key # "" /\ x_api_key = settings.api_key
    THEN 200
    ELSE IF verify_db_key(x_api_key) = NoInfo
            \/ "keys:manage" \notin verify_db_key(x_api_key).scopes
    THEN 401
    ELSE 200

(***************************************************************************)
(* Rate limiter (_enforce_rate_limit).                                     *)
(***************************************************************************)
now_min == now \div WindowSeconds

\* a pruning that empties the table
PruneBuckets_DropsAll(b) ==
    [k \in {k \in DOMAIN b : FALSE} |-> b[k]]

\* the buckets left after pruning every bucket of another window
PruneBuckets(b) ==
    [k \in {k \in DOMAIN b : b[k].window = now_min} |-> b[k]]

\* the bucket of bucket_key after `bucket["count"] += 1`
BumpBucket(b, bucket_key) ==
    IF bucket_key \in DOMAIN b /\ b[bucket_key].window = now_min
    THEN [window |-> now_min, count |-> b[bucket_key].count + 1]
    ELSE [window |-> now_min, count |-> 1]

\* a limiter that rejects the request that reaches the limit
OverLimit_AtLimit(count, limit) == count >= limit

\* a limiter that rejects only the first request beyond the limit
OverLimit_FirstExcessOnly(count, limit) == count = limit + 1

\* `bucket["count"] > limit`
OverLimit(count, limit) == count > limit

\* _enforce_rate_limit(info, path, limit): [rc, buckets]; rc 200 is a normal
\* return, 429 the raised HTTPException.  limit 0 stands for None.
_enforce_rate_limit(info, path, limit) ==
    LET lim == IF limit # 0 THEN limit ELSE settings.max_requests_per_minute
        key_id == info.key_id
        bucket_key == <<key_id, path>>
        pruned == PruneBuckets(rate_buckets)
        bucket == BumpBucket(pruned, bucket_key)
        after == [k \in DOMAIN pruned \cup {bucket_key} |->
                     IF k = bucket_key THEN bucket ELSE pruned[k]]
    IN IF lim <= 0 THEN [rc |-> 200, buckets |-> rate_buckets]
       ELSE IF info = Anonymous THEN [rc |-> 200, buckets |-> rate_buckets]
       ELSE [rc |-> IF OverLimit(bucket.count, lim) THEN 429 ELSE 200,
             buckets |-> after]

\* a dependency that counts the requests of the anonymous principal in a
\* bucket of its own
RequireScopeAndRate_AnonymousCounted(x_api_key, scope, path) ==
    LET info == require_api_key(x_api_key)
        counted == [info EXCEPT !.key_id = "unknown", !.scopes = {"*"}]
    IN IF info.rc # 200 THEN [rc |-> info.rc, buckets |-> rate_buckets]
       ELSE IF info = Anonymous /\ ~settings.require_api_key /\ settings.api_key = ""
       THEN _enforce_rate_limit(counted, path, 0)
       ELSE IF ~_has_scope(info, scope)
       THEN [rc |-> 403, buckets |-> rate_buckets]
       ELSE _enforce_rate_limit(info, path, 0)

\* require_fax_send / require_fax_read: the dependency of POST /fax and
\* GET /fax/{id}: [rc, buckets]
RequireScopeAndRate(x_api_key, scope, path) ==
    LET info == require_api_key(x_api_key)
    IN IF info.rc # 200 THEN [rc |-> info.rc, buckets |-> rate_buckets]
       ELSE IF info = Anonymous /\ ~settings.require_api_key /\ settings.api_key = ""
       THEN [rc |-> 200, buckets |-> rate_buckets]
       ELSE IF ~_has_scope(info, scope)
       THEN [rc |-> 403, buckets |-> rate_buckets]
       ELSE _enforce_rate_limit(info, path, 0)

require_fax_send(x_api_key) == RequireScopeAndRate(x_api_key, "fax:send", "/fax")
require_fax_read(x_api_key) == RequireScopeAndRate(x_api_key, "fax:read", "/fax/{id}")

\* bookkeeping: the request log after a request with this key on this route
\* in the 60-second window of the clock; only requests of an authenticated
\* key are logged
LogEntry(key_id, path) ==
    [key_id |-> key_id, path |-> path, window |-> now \div WindowSeconds]

Logged(x_api_key, path) ==
    LET info == require_api_key(x_api_key)
    IN IF info.rc = 200 /\ info # Anonymous
       THEN [hist EXCEPT !.log = @ (+) SetToBag({LogEntry(info.key_id, path)})]
       ELSE hist

(***************************************************************************)
(* Outbound jobs: POST /fax, GET /fax/{id}.                                *)
(***************************************************************************)
AsciiDigits == {"0", "1", "2", "3", "4", "5", "6", "7", "8", "9"}

\* \d of a str pattern: every Unicode decimal digit; "ar3" stands for
\* U+0663 ARABIC-INDIC DIGIT THREE
Digits == AsciiDigits \cup {"ar3"}

\* `$` outside MULTILINE matches at the end of the string and also just
\* before a newline that ends the string; "LF" stands for the newline
BeforeDollar(to) ==
    IF to # <<>> /\ to[Len(to)] = "LF" THEN {to, SubSeq(to, 1, Len(to) - 1)} ELSE {to}

\* PHONE_RE = ^[+]?\d{6,20}$ applied with re.match to a sequence of characters
PHONE_RE(to) ==
    \E matched \in BeforeDollar(to) :
        LET body == IF matched # <<>> /\ Head(matched) = "+" THEN Tail(matched) ELSE matched
        IN /\ Len(body) >= MinPhoneDigits
           /\ Len(body) <= MaxPhoneDigits
           /\ \A i \in 1..Len(body) : body[i] \in Digits

\* the upload: a PDF, a UTF-8 text, bytes that are neither, or a file over
\* settings.max_file_size_mb
Documents == {"pdf", "txt", "bin", "oversize"}

NoResp ==
    [op |-> "none", rc |-> 0, detail |-> "", id |-> 0, status |-> NULL,
     error |-> NULL, tok |-> <<"", 0>>]

Error(op, rc, detail) == [NoResp EXCEPT !.op = op, !.rc = rc, !.detail = detail]

\* a tokenized PDF URL: <<job id, token>>
NoUrl == <<0, <<"", 0>>>>

\* the status send_fax writes into the new row
SubmitStatus == "queued"

\* the FaxJob row send_fax commits
NewJob(to, pages) ==
    [ to_number |-> to,
      status |-> SubmitStatus,
      error |-> NULL,
      pages |-> pages,
      backend |-> settings.fax_backend,
      provider_sid |-> NULL,
      pdf_url |-> NoUrl,
      pdf_token |-> <<"", 0>>,
      pdf_token_expires_at |-> NoInt,
      created_at |-> now,
      updated_at |-> now ]

\* a task that is scheduled whether or not sending is disabled
NewTask_AlwaysScheduled ==
    [ pc |-> "scheduled",
      method |-> IF settings.fax_backend \in {"phaxio", "sinch"}
                 THEN settings.fax_backend ELSE "sip",
      audit |-> <<>> ]

\* a task whose backend invocation has begun when send_fax returns
NewTask_Started ==
    [ pc |-> IF settings.fax_disabled THEN "none" ELSE "awaiting",
      method |-> IF settings.fax_backend \in {"phaxio", "sinch"}
                 THEN settings.fax_backend ELSE "sip",
      audit |-> <<"job_dispatch">> ]

\* the background task send_fax schedules; audit is the sequence of events
\* the task has handed to audit_event
NewTask ==
    [ pc |-> IF settings.fax_disabled THEN "none" ELSE "scheduled",
      method |-> IF settings.fax_backend \in {"phaxio", "sinch"}
                 THEN settings.fax_backend ELSE "sip",
      audit |-> <<>> ]

\* audit_event(event, job_id=...) called by a dispatch task
Audited(task, event) == [task EXCEPT !.audit = Append(@, event)]

\* _serialize_job
_serialize_job(op, id, job) ==
    [NoResp EXCEPT !.op = op, !.rc = IF op = "send_fax" THEN 202 ELSE 200,
                   !.id = id, !.status = job.status, !.error = job.error]

\* POST /fax
SendFax(x_api_key, to, doc) ==
    LET dep == require_fax_send(x_api_key)
        id == Len(jobs) + 1
        sip == settings.fax_backend \notin {"phaxio", "sinch"}
    IN /\ rate_buckets' = dep.buckets
       /\ IF dep.rc # 200
          THEN /\ resp' = Error("send_fax", dep.rc, "auth")
               /\ UNCHANGED <<jobs, tasks, files>>
          ELSE IF ~PHONE_RE(to)
          THEN /\ resp' = Error("send_fax", 400, "'to' must be E.164 or digits only")
               /\ UNCHANGED <<jobs, tasks, files>>
          ELSE IF doc = "oversize"
          THEN /\ resp' = Error("send_fax", 413, "File exceeds limit")
               /\ UNCHANGED <<jobs, tasks, files>>
          ELSE IF doc = "bin"
          THEN /\ resp' = Error("send_fax", 415, "Only PDF and TXT are allowed")
               /\ UNCHANGED <<jobs, tasks, files>>
          ELSE /\ id <= MaxJobs
               /\ \E n \in IF sip THEN {1, 2} ELSE {NoInt} :
                     LET pages == IF sip /\ settings.fax_disabled THEN 1 ELSE n
                     IN /\ jobs' = Append(jobs, NewJob(to, pages))
                        /\ resp' = _serialize_job("send_fax", id, NewJob(to, pages))
               /\ tasks' = Append(tasks, NewTask)
               /\ files' = files \cup {<<"orig", id>>, <<"pdf", id>>}
                                 \cup (IF sip THEN {<<"tiff", id>>} ELSE {})
       /\ hist' = Logged(x_api_key, "/fax")
       /\ UNCHANGED <<settings, now, api_keys, events, inbound, handlers>>

\* GET /fax/{job_id}
GetFax(x_api_key, id) ==
    LET dep == require_fax_read(x_api_key)
    IN /\ rate_buckets' = dep.buckets
       /\ resp' = IF dep.rc # 200 THEN Error("get_fax", dep.rc, "auth")
                  ELSE IF id \notin DOMAIN jobs THEN Error("get_fax", 404, "Job not found")
                  ELSE _serialize_job("get_fax", id, jobs[id])
       /\ hist' = Logged(x_api_key, "/fax/{id}")
       /\ UNCHANGED <<settings, now, api_keys, jobs, tasks, files, events,
                      inbound, handlers>>

(***************************************************************************)
(* Background dispatch (_send_via_phaxio, _send_via_sinch, _originate_job) *)
(***************************************************************************)
\* secrets.token_urlsafe(32): a fresh token, different for every resource
NoToken == <<"", 0>>
NewToken(kind, id) == <<kind, id>>

\* get_phaxio_service() returns a service only with both credentials set
PhaxioConfigured ==
    settings.phaxio_api_key # "" /\ settings.phaxio_api_secret # ""

\* the statuses phaxio_service.send_fax reports for an accepted fax
PhaxioSendStatuses == {"in_progress", "SUCCESS", "FAILED"}

\* the status strings of a Sinch create-fax response; "" is a response
\* without a status
SinchRawStatuses == {"", "in_progress", "completed", "failure", "pending"}

Upper(s) ==
    CASE s = "in_progress" -> "IN_PROGRESS"
      [] s = "completed" -> "COMPLETED"
      [] s = "failure" -> "FAILURE"
      [] s = "pending" -> "PENDING"
      [] OTHER -> s

\* _send_via_sinch: the internal status of a response status
SinchInternalStatus(raw) ==
    LET status == Upper(IF raw # "" THEN raw ELSE "in_progress")
    IN IF status = "IN_PROGRESS" THEN "in_progress"
       ELSE IF status \in {"SUCCESS", "COMPLETED", "COMPLETED_OK"} THEN "SUCCESS"
       ELSE IF status \in {"FAILED", "FAILURE", "ERROR"} THEN "FAILED"
       ELSE "queued"

\* a failure write that records the status without the exception's message
FailJob_NoMessage(job, message) ==
    [job EXCEPT !.status = "failed", !.updated_at = now]

\* the write of every except-branch: status failed, error str(e)
FailJob(job, message) ==
    [job EXCEPT !.status = "failed", !.error = message, !.updated_at = now]

\* the token expiry _send_via_phaxio stores
TokenExpiry == now + Max(1, settings.pdf_token_ttl_minutes) * SecondsPerMinute

\* a first write that stores the token without its expiry
PhaxioPrepare_NoExpiry(job, id, pdf_token) ==
    [job EXCEPT !.pdf_url = <<id, pdf_token>>,
                !.pdf_token = pdf_token,
                !.status = "in_progress",
                !.updated_at = now]

\* _send_via_phaxio up to the await of phaxio_service.send_fax
PhaxioPrepare(job, id, pdf_token) ==
    [job EXCEPT !.pdf_url = <<id, pdf_token>>,
                !.pdf_token = pdf_token,
                !.pdf_token_expires_at = TokenExpiry,
                !.status = "in_progress",
                !.updated_at = now]

\* a completion write that stores the row as the task read it at submission,
\* with the provider's answer
DispatchResult_StaleRow(job, provider_sid, status) ==
    [job EXCEPT !.provider_sid = provider_sid, !.status = status,
                !.error = NULL, !.pages = NoInt, !.updated_at = now]

\* the write after the awaited send returned `result`
DispatchResult(job, provider_sid, status) ==
    [job EXCEPT !.provider_sid = provider_sid, !.status = status, !.updated_at = now]

\* a status write that leaves the modification time alone
OriginateStarted_NoTouch(job) ==
    [job EXCEPT !.status = "in_progress"]

\* _originate_job after originate_sendfax returned
OriginateStarted(job) ==
    [job EXCEPT !.status = "in_progress", !.updated_at = now]

\* a background task runs up to its await
DispatchStart(id) ==
    /\ id \in DOMAIN tasks
    /\ tasks[id].pc = "scheduled"
    /\ LET m == tasks[id].method
       IN \/ /\ m = "phaxio" /\ ~PhaxioConfigured
             /\ jobs' = [jobs EXCEPT ![id] = FailJob(@, "Phaxio is not properly configured")]
             /\ tasks' = [tasks EXCEPT ![id] = [Audited(@, "job_failed") EXCEPT !.pc = "done"]]
          \/ /\ m = "phaxio" /\ PhaxioConfigured
             /\ jobs' = [jobs EXCEPT ![id] = PhaxioPrepare(@, id, NewToken("out", id))]
             /\ tasks' = [tasks EXCEPT ![id] =
                             [Audited(@, "job_dispatch") EXCEPT !.pc = "awaiting"]]
          \/ /\ m = "sinch" /\ ~settings.sinch_configured
             /\ jobs' = [jobs EXCEPT ![id] = FailJob(@, "Sinch Fax is not properly configured")]
             /\ tasks' = [tasks EXCEPT ![id] = [Audited(@, "job_failed") EXCEPT !.pc = "done"]]
          \/ /\ \/ m = "sinch" /\ settings.sinch_configured
                \/ m = "sip"
             /\ tasks' = [tasks EXCEPT ![id] =
                             [Audited(@, "job_dispatch") EXCEPT !.pc = "awaiting"]]
             /\ UNCHANGED jobs
    /\ UNCHANGED <<settings, now, api_keys, rate_buckets, files, events, inbound,
                   handlers, resp, hist>>

ProviderSids == {"px_1"}

\* the awaited backend call returns and the task commits its outcome
DispatchOk(id) ==
    /\ id \in DOMAIN tasks
    /\ tasks[id].pc = "awaiting"
    /\ LET m == tasks[id].method
       IN \/ /\ m = "phaxio"
             /\ \E sid \in ProviderSids, st \in PhaxioSendStatuses :
                   jobs' = [jobs EXCEPT ![id] = DispatchResult(@, sid, st)]
          \/ /\ m = "sinch"
             /\ \E sid \in ProviderSids \cup {""}, raw \in SinchRawStatuses :
                   jobs' = [jobs EXCEPT ![id] = DispatchResult(@, sid, SinchInternalStatus(raw))]
          \/ /\ m = "sip"
             /\ jobs' = [jobs EXCEPT ![id] = OriginateStarted(@)]
    /\ tasks' = [tasks EXCEPT ![id].pc = "done"]
    /\ UNCHANGED <<settings, now, api_keys, rate_buckets, files, events, inbound,
                   handlers, resp, hist>>

\* the awaited backend call raises
DispatchRaise(id) ==
    /\ id \in DOMAIN tasks
    /\ tasks[id].pc = "awaiting"
    /\ jobs' = [jobs EXCEPT ![id] = FailJob(@, "backend error")]
    /\ tasks' = [tasks EXCEPT ![id] = [Audited(@, "job_failed") EXCEPT !.pc = "done"]]
    /\ UNCHANGED <<settings, now, api_keys, rate_buckets, files, events, inbound,
                   handlers, resp, hist>>

(***************************************************************************)
(* Telephony result events (_handle_fax_result).                           *)
(***************************************************************************)
\* the Status / Error / Pages an AMI fax result event carries; NULL and 0
\* are absent fields
AmiStatuses == {NULL, "SUCCESS", "FAILED", "in_progress"}
AmiErrors == {NULL, "no carrier"}
AmiPages == {0, 3}

\* a result write that stores the Pages field as it stores the Error field,
\* absent or not
FaxResult_PagesAlways(job, status, error, pages) ==
    [job EXCEPT !.status = IF status # NULL THEN status ELSE @,
                !.error = error,
                !.pages = IF pages # 0 THEN pages ELSE NoInt,
                !.updated_at = now]

FaxResult(job, status, error, pages) ==
    [job EXCEPT !.status = IF status # NULL THEN status ELSE @,
                !.error = error,
                !.pages = IF pages # 0 THEN pages ELSE @,
                !.updated_at = now]

\* the listener is registered at startup for the SIP backend only
_handle_fax_result(id, status, error, pages) ==
    /\ ~settings.fax_disabled /\ settings.fax_backend = "sip"
    /\ id \in DOMAIN jobs
    /\ tasks[id].method = "sip" /\ tasks[id].pc \in {"awaiting", "done"}
    /\ jobs' = [jobs EXCEPT ![id] = FaxResult(@, status, error, pages)]
    /\ UNCHANGED <<settings, now, api_keys, rate_buckets, tasks, files, events,
                   inbound, handlers, resp, hist>>

(***************************************************************************)
(* Webhook signatures.                                                     *)
(***************************************************************************)
\* hmac.new(secret, raw_body, sha256).hexdigest(): a lowercase hex digest that
\* is determined by, and determines, the key and the message
HmacHex(secret, raw_body) == [key |-> secret, msg |-> raw_body]

\* a signature header: absent, or the hex digest in lower or upper case
NoSig ==
    [present |-> FALSE, key |-> "",
     msg |-> [sid |-> "", status |-> "", pages |-> 0, file_url |-> FALSE],
     upper |-> FALSE]
Sign(k, m, u) == [present |-> TRUE, key |-> k, msg |-> m, upper |-> u]

\* provided.strip().lower()
StripLower(provided) == [key |-> provided.key, msg |-> provided.msg]

\* a comparison that looks at the key and not at the signed message
compare_digest_KeyOnly(digest, provided) == digest.key = StripLower(provided).key

\* hmac.compare_digest(digest, provided.strip().lower())
compare_digest(digest, provided) == digest = StripLower(provided)

\* the signature check of phaxio_callback and phaxio_inbound: "" when the
\* request passes, else the detail of the raised HTTPException(401)
PhaxioSignatureCheck(enabled, provided, raw_body) ==
    IF ~enabled THEN ""
    ELSE IF ~provided.present THEN "Missing Phaxio signature"
    ELSE IF settings.phaxio_api_secret = "" THEN "Phaxio secret not configured"
    ELSE IF ~compare_digest(HmacHex(settings.phaxio_api_secret, raw_body), provided)
    THEN "Invalid Phaxio signature"
    ELSE ""

\* the Basic-auth and HMAC checks of sinch_inbound; a missing signature
\* header is read as the empty string, which equals no digest
SinchAuthCheck(basic, provided, raw_body) ==
    IF settings.sinch_inbound_basic_user # ""
       /\ basic # <<settings.sinch_inbound_basic_user, settings.sinch_inbound_basic_pass>>
    THEN "Invalid basic auth"
    ELSE IF /\ settings.sinch_inbound_hmac_secret # ""
            /\ ~( /\ provided.present
                  /\ compare_digest(HmacHex(settings.sinch_inbound_hmac_secret, raw_body),
                                    provided) )
    THEN "Invalid signature"
    ELSE ""

(***************************************************************************)
(* Webhook payloads.                                                       *)
(***************************************************************************)
\* a payload: provider id ("" when absent), provider status, page count
\* (0 when absent), and whether it names a file URL
Body(sid, status, pages, url) ==
    [sid |-> sid, status |-> status, pages |-> pages, file_url |-> url]

StatusBodies ==
    { Body(sid, st, pg, FALSE) :
        sid \in {"px_1"}, st \in {"inprogress", "success", "failure"}, pg \in {0, 2} }

\* the payload a body was before it was altered in transit
Original(body) == [body EXCEPT !.pages = IF @ = 0 THEN 2 ELSE 0]

\* the Phaxio and the Sinch shared secret; on the other provider's endpoint
\* each is a key the server does not hold
SignKeys == {"psecret", "ssecret"}

\* the signature headers a request with this body may carry: none, a digest
\* of the body (in either case), or the digest of the body before it was
\* altered
SigsFor(body) ==
    {NoSig} \cup { Sign(k, body, u) : k \in SignKeys, u \in BOOLEAN }
            \cup { Sign(k, Original(body), FALSE) : k \in SignKeys }

BasicAuths == {<<"", "">>, <<"user", "pass">>}

NoReq == [op |-> "none", sig |-> NoSig, basic |-> <<"", "">>,
          body |-> Body("", "", 0, FALSE), job_id |-> 0]
Req(op, sig, basic, body, job_id) ==
    [op |-> op, sig |-> sig, basic |-> basic, body |-> body, job_id |-> job_id]

\* the (provider_sid, event_type) pair of a request
EventKey(req) ==
    <<req.body.sid, IF req.op = "phaxio_callback" THEN req.body.status ELSE req.op>>

\* bookkeeping: one observed request, how many of its deliveries were
\* accepted for processing and how many times its side effect was applied;
\* the bag of the API requests that carried a valid key; and the time of
\* the latest sweep pass
Observe(req) == [req |-> req, delivered |-> 0, applied |-> 0, log |-> EmptyBag,
                swept |-> NoInt]

Track(req, applied) ==
    IF hist.req = req
    THEN [hist EXCEPT !.delivered = @ + 1, !.applied = @ + applied]
    ELSE hist

CanTrack(req) == hist.req = req => hist.delivered < MaxDeliveries

(***************************************************************************)
(* Status webhook (phaxio_callback).                                       *)
(***************************************************************************)
\* phaxio_service.handle_status_callback: the normalized status_info
handle_status_callback(body) ==
    [ status |-> CASE body.status = "success" -> "SUCCESS"
                   [] body.status = "failure" -> "FAILED"
                   [] OTHER -> "in_progress",
      error_message |-> IF body.status = "failure" THEN "fax failed" ELSE NULL,
      pages |-> body.pages ]

\* an update that leaves the page count alone
ApplyStatus_NoPages(job, status_info) ==
    [job EXCEPT !.status = status_info.status,
                !.error = IF status_info.error_message # NULL
                          THEN status_info.error_message ELSE @,
                !.updated_at = now]

\* the row phaxio_callback commits
ApplyStatus(job, status_info) ==
    [job EXCEPT !.status = status_info.status,
                !.error = IF status_info.error_message # NULL
                          THEN status_info.error_message ELSE @,
                !.pages = IF status_info.pages # 0 THEN status_info.pages ELSE @,
                !.updated_at = now]

Ack(op, detail) == [NoResp EXCEPT !.op = op, !.rc = 200, !.detail = detail]

\* POST /phaxio-callback?job_id=...
phaxio_callback(req) ==
    LET denied == PhaxioSignatureCheck(settings.phaxio_verify_signature,
                                       req.sig, req.body)
    IN /\ req.op = "phaxio_callback"
       /\ CanTrack(req)
       /\ IF denied # ""
          THEN /\ resp' = Error("phaxio_callback", 401, denied)
               /\ UNCHANGED <<jobs, hist>>
          ELSE IF req.job_id = 0
          THEN /\ resp' = Ack("phaxio_callback", "no job_id provided")
               /\ UNCHANGED <<jobs, hist>>
          ELSE IF ~PhaxioConfigured
          THEN /\ resp' = Ack("phaxio_callback", "phaxio not configured")
               /\ UNCHANGED <<jobs, hist>>
          ELSE /\ resp' = Ack("phaxio_callback", "ok")
               /\ IF req.job_id \in DOMAIN jobs
                  THEN /\ jobs' = [jobs EXCEPT ![req.job_id] =
                                      ApplyStatus(@, handle_status_callback(req.body))]
                       /\ hist' = Track(req, 1)
                  ELSE /\ hist' = Track(req, 0)
                       /\ UNCHANGED jobs
       /\ UNCHANGED <<settings, now, api_keys, rate_buckets, tasks, files, events,
                      inbound, handlers>>

(***************************************************************************)
(* Inbound webhooks (phaxio_inbound, sinch_inbound).                       *)
(***************************************************************************)
Backend(op) == IF op = "phaxio_inbound" THEN "phaxio" ELSE "sinch"

\* the InboundEvent insert collides when the pair is already in the table
ReceiptCollides(key) == key \in events

\* retention_until of a new inbound fax
RetentionUntil ==
    IF settings.inbound_retention_days > 0
    THEN now + settings.inbound_retention_days * SecondsPerDay
    ELSE NoInt

\* the InboundFax row an inbound webhook commits
NewInbound(op, body, fetched, pdf_token) ==
    [ provider_sid |-> body.sid,
      status |-> body.status,
      backend |-> Backend(op),
      pages |-> IF body.pages # 0 THEN body.pages ELSE NoInt,
      sha256 |-> IF fetched THEN "content" ELSE "placeholder",
      pdf_path |-> "stored",
      tiff_path |-> NULL,
      retention_until |-> RetentionUntil,
      pdf_token |-> pdf_token,
      pdf_token_expires_at |->
          now + Max(1, settings.inbound_token_ttl_minutes) * SecondsPerMinute,
      updated_at |-> now ]

\* the handler from the PDF fetch on: storage.put_pdf stores the file and the
\* row is committed, or put_pdf raises and the request ends with 500 (the
\* local copy it leaves behind belongs to no row and is not tracked)
StoreInbound(req, fetched, h) ==
    \/ /\ inbound' = Append(inbound, NewInbound(req.op, req.body, fetched,
                                                NewToken("in", Len(inbound) + 1)))
       /\ files' = files \cup {<<"in", Len(inbound) + 1>>}
       /\ resp' = Ack(req.op, "ok")
       /\ hist' = IF h.req = req THEN [h EXCEPT !.applied = @ + 1] ELSE h
    \/ /\ resp' = Error(req.op, 500, "internal_error")
       /\ hist' = h
       /\ UNCHANGED <<inbound, files>>

\* a payload check that finds a provider_sid in every payload
MissingSid_Never(body) == FALSE

\* `if not provider_sid`
MissingSid(body) == body.sid = ""

\* an inbound webhook up to the await of the PDF fetch (or to its end when
\* the payload names no file URL); `denied` is the outcome of the
\* authentication checks
InboundArrives(req, denied) ==
    /\ CanTrack(req)
    /\ IF ~settings.inbound_enabled
       THEN /\ resp' = Error(req.op, 404, "Inbound not enabled")
            /\ UNCHANGED <<events, inbound, handlers, files, hist>>
       ELSE IF denied # ""
       THEN /\ resp' = Error(req.op, 401, denied)
            /\ UNCHANGED <<events, inbound, handlers, files, hist>>
       ELSE IF MissingSid(req.body)
       THEN /\ resp' = Ack(req.op, "ignored")
            /\ UNCHANGED <<events, inbound, handlers, files, hist>>
       ELSE IF ReceiptCollides(EventKey(req))
       THEN /\ resp' = Ack(req.op, "ok")
            /\ hist' = Track(req, 0)
            /\ UNCHANGED <<events, inbound, handlers, files>>
       ELSE /\ Len(inbound) + Cardinality(handlers) < MaxInbound
            /\ events' = events \cup {EventKey(req)}
            /\ IF req.body.file_url
               THEN /\ handlers' = handlers \cup {req}
                    /\ hist' = Track(req, 0)
                    /\ UNCHANGED <<inbound, files, resp>>
               ELSE /\ StoreInbound(req, FALSE, Track(req, 0))
                    /\ UNCHANGED handlers
    /\ UNCHANGED <<settings, now, api_keys, rate_buckets, jobs, tasks>>

\* POST /phaxio-inbound
phaxio_inbound(req) ==
    /\ req.op = "phaxio_inbound"
    /\ InboundArrives(req, PhaxioSignatureCheck(settings.phaxio_inbound_verify_signature,
                                                req.sig, req.body))

\* POST /sinch-inbound
sinch_inbound(req) ==
    /\ req.op = "sinch_inbound"
    /\ InboundArrives(req, SinchAuthCheck(req.basic, req.sig, req.body))

\* a suspended inbound handler resumes after the PDF fetch
InboundResumes(req, fetched) ==
    /\ req \in handlers
    /\ handlers' = handlers \ {req}
    /\ StoreInbound(req, fetched, hist)
    /\ UNCHANGED <<settings, now, api_keys, rate_buckets, jobs, tasks, events>>

(***************************************************************************)
(* Tokenized PDF access (get_fax_pdf).                                     *)
(***************************************************************************)
\* parse_qs(urlparse(pdf_url).query)["token"][0]
UrlToken(pdf_url) == pdf_url[2]

\* the token get_fax_pdf expects: pdf_token, else the token of pdf_url
ExpectedToken(job) ==
    IF job.pdf_token # NoToken THEN job.pdf_token
    ELSE IF job.pdf_url # NoUrl THEN UrlToken(job.pdf_url)
    ELSE NoToken

\* a comparison that is skipped for an empty presented token
TokenMismatch_NonEmptyOnly(token, expected_token) ==
    token # NoToken /\ token # expected_token

\* `token != expected_token`
TokenMismatch(token, expected_token) == token # expected_token

\* an expiry test that already fails at the expiry instant
TokenExpired_AtExpiry(job) ==
    job.pdf_token_expires_at # NoInt /\ now >= job.pdf_token_expires_at

\* `job.pdf_token_expires_at and datetime.utcnow() > job.pdf_token_expires_at`
TokenExpired(job) ==
    job.pdf_token_expires_at # NoInt /\ now > job.pdf_token_expires_at

PdfResp(id, token, rc, detail) ==
    [NoResp EXCEPT !.op = "get_fax_pdf", !.rc = rc, !.detail = detail,
                   !.id = id, !.tok = token]

\* GET /fax/{job_id}/pdf?token=...
get_fax_pdf(id, token) ==
    /\ resp' =
         IF id \notin DOMAIN jobs THEN PdfResp(id, token, 404, "Job not found")
         ELSE IF ExpectedToken(jobs[id]) = NoToken
         THEN PdfResp(id, token, 404, "PDF not available")
         ELSE IF TokenMismatch(token, ExpectedToken(jobs[id]))
         THEN PdfResp(id, token, 403, "Invalid token")
         ELSE IF TokenExpired(jobs[id])
         THEN PdfResp(id, token, 403, "Token expired")
         ELSE IF <<"pdf", id>> \notin files
         THEN PdfResp(id, token, 404, "PDF file not found")
         ELSE PdfResp(id, token, 200, "pdf")
    /\ UNCHANGED <<settings, now, api_keys, rate_buckets, jobs, tasks, files,
                   events, inbound, handlers, hist>>

(***************************************************************************)
(* Retention sweep (_cleanup_once).                                        *)
(***************************************************************************)
final_statuses == {"SUCCESS", "FAILED", "failed", "disabled"}

Cutoff == now - Max(1, settings.artifact_ttl_days) * SecondsPerDay

\* a pass that knows only the upper-case final statuses
Reclaimable_UpperOnly(id) ==
    /\ jobs[id].updated_at < Cutoff
    /\ jobs[id].status \in {"SUCCESS", "FAILED"}

\* a pass that looks at the age of a job only
Reclaimable_AnyStatus(id) ==
    jobs[id].updated_at < Cutoff

\* the outbound jobs a pass reclaims
Reclaimable(id) ==
    /\ jobs[id].updated_at < Cutoff
    /\ jobs[id].status \in final_statuses

\* the inbound faxes a pass reclaims
RetentionElapsed(fx) ==
    fx.retention_until # NoInt /\ fx.retention_until <= now

SweptInbound(fx) ==
    IF RetentionElapsed(fx)
    THEN [fx EXCEPT !.pdf_path = NULL, !.updated_at = now]
    ELSE fx

\* a pass that removes the inbound rows it reclaims together with their files
_cleanup_once_DropsRows ==
    /\ settings.artifact_ttl_days > 0
    /\ files' = { f \in files :
                   IF f[1] = "in"
                   THEN ~RetentionElapsed(inbound[f[2]])
                   ELSE ~Reclaimable(f[2]) }
    /\ inbound' = SelectSeq(inbound, LAMBDA fx : ~RetentionElapsed(fx))
    /\ hist' = [hist EXCEPT !.swept = now]
    /\ UNCHANGED <<settings, now, api_keys, rate_buckets, jobs, tasks, events,
                   handlers, resp>>

\* a pass that removes one file and leaves the rest to the next pass
SweptFiles_OnePerPass(fs, inb) ==
    LET due == { f \in fs :
                   IF f[1] = "in"
                   THEN RetentionElapsed(inb[f[2]])
                   ELSE Reclaimable(f[2]) }
    IN IF due = {} THEN fs ELSE fs \ {CHOOSE f \in due : TRUE}

\* the files a pass leaves of the files fs, given the inbound rows inb
SweptFiles(fs, inb) ==
    { f \in fs :
        IF f[1] = "in"
        THEN ~RetentionElapsed(inb[f[2]])
        ELSE ~Reclaimable(f[2]) }

\* the inbound rows a pass leaves
SweptRows(inb) == [i \in DOMAIN inb |-> SweptInbound(inb[i])]

\* one pass of _artifact_cleanup_loop, which on_startup starts when
\* artifact_ttl_days > 0
_cleanup_once ==
    /\ settings.artifact_ttl_days > 0
    /\ files' = SweptFiles(files, inbound)
    /\ inbound' = SweptRows(inbound)
    /\ hist' = [hist EXCEPT !.swept = now]
    /\ UNCHANGED <<settings, now, api_keys, rate_buckets, jobs, tasks, events,
                   handlers, resp>>

\* the files of a reclaimable job a pass removes when the removals in
\* `failing` raise: PDF, TIFF and uploads in that order, up to the first
\* removal that raises (the except-branch moves on to the next job)
RemovedOf(id, failing) ==
    IF <<"pdf", id>> \in failing THEN {}
    ELSE IF <<"tiff", id>> \in failing THEN {<<"pdf", id>>}
    ELSE IF <<"orig", id>> \in failing THEN {<<"pdf", id>>, <<"tiff", id>>}
    ELSE {<<"pdf", id>>, <<"tiff", id>>, <<"orig", id>>}

\* a pass that gives up at the first removal that raises
_cleanup_pass_Aborts(failing) ==
    /\ settings.artifact_ttl_days > 0
    /\ IF failing \cap files # {}
       THEN UNCHANGED <<files, inbound>>
       ELSE /\ files' = { f \in files :
                           IF f[1] = "in"
                           THEN ~RetentionElapsed(inbound[f[2]])
                           ELSE ~Reclaimable(f[2]) }
            /\ inbound' = [i \in DOMAIN inbound |-> SweptInbound(inbound[i])]
    /\ hist' = [hist EXCEPT !.swept = now]
    /\ UNCHANGED <<settings, now, api_keys, rate_buckets, jobs, tasks, events,
                   handlers, resp>>

\* one pass in which the removals of the files in `failing` raise: a job's
\* failure ends the work on that job only; a failing storage.delete is
\* swallowed, the file stays and the row is written all the same
_cleanup_pass(failing) ==
    /\ settings.artifact_ttl_days > 0
    /\ files' = { f \in files :
                   IF f[1] = "in"
                   THEN ~RetentionElapsed(inbound[f[2]]) \/ f \in failing
                   ELSE ~Reclaimable(f[2]) \/ f \notin RemovedOf(f[2], failing) }
    /\ inbound' = [i \in DOMAIN inbound |-> SweptInbound(inbound[i])]
    /\ hist' = [hist EXCEPT !.swept = now]
    /\ UNCHANGED <<settings, now, api_keys, rate_buckets, jobs, tasks, events,
                   handlers, resp>>

(***************************************************************************)
(* The clock.                                                              *)
(***************************************************************************)
Tick(d) ==
    /\ now + d <= MaxTicks * d
    /\ now' = now + d
    /\ UNCHANGED <<settings, api_keys, rate_buckets, jobs, tasks, files, events,
                   inbound, handlers, resp, hist>>

(***************************************************************************)
(* Initial states and specifications.                                      *)
(***************************************************************************)
KeyRows ==
    { [key_id |-> "k1", token |-> "dbkey", scopes |-> {"fax:send", "fax:read"},
       revoked |-> FALSE, expires_at |-> NoInt] }

InitWith(configs, observed) ==
    /\ settings \in configs
    /\ now = 0
    /\ api_keys = KeyRows
    /\ rate_buckets = <<>>
    /\ jobs = <<>>
    /\ tasks = <<>>
    /\ files = {}
    /\ events = {}
    /\ inbound = <<>>
    /\ handlers = {}
    /\ resp = NoResp
    /\ hist \in {Observe(r) : r \in observed}

HalfMinute == SecondsPerMinute \div 2

ValidTo == <<"+", "1", "5", "5", "5", "1", "2">>
InvalidTo == <<"a", "b", "c">>

\* --- the job lifecycle: submission, dispatch, status webhooks, AMI events
JobConfigs ==
    { [DefaultSettings EXCEPT !.fax_backend = b, !.fax_disabled = d,
                              !.phaxio_api_key = IF c THEN "pk" ELSE "",
                              !.phaxio_api_secret = IF c THEN "psecret" ELSE "",
                              !.sinch_configured = c,
                              !.phaxio_verify_signature = FALSE] :
        b \in {"phaxio", "sinch", "sip"}, d \in BOOLEAN, c \in BOOLEAN }

StatusRequests ==
    { Req("phaxio_callback", NoSig, <<"", "">>, b, j) :
        b \in StatusBodies, j \in 0..MaxJobs }

Init == InitWith(JobConfigs, {NoReq})

Submit == \E to \in {ValidTo, InvalidTo}, doc \in Documents : SendFax(NULL, to, doc)
Poll == \E id \in 1..MaxJobs : GetFax(NULL, id)
Start == \E id \in 1..MaxJobs : DispatchStart(id)
SendReturns == \E id \in 1..MaxJobs : DispatchOk(id)
SendRaises == \E id \in 1..MaxJobs : DispatchRaise(id)
StatusWebhook == \E req \in StatusRequests : phaxio_callback(req)
FaxResultEvent ==
    \E id \in 1..MaxJobs, st \in AmiStatuses, e \in AmiErrors, pg \in AmiPages :
        _handle_fax_result(id, st, e, pg)

Next ==
    \/ Submit
    \/ Poll
    \/ Start
    \/ SendReturns
    \/ SendRaises
    \/ StatusWebhook
    \/ FaxResultEvent

Spec == Init /\ [][Next]_vars

\* --- the status webhook with its signature check, replays observed
SuccessBody == Body("px_1", "success", 2, FALSE)
FailureBody == Body("px_1", "failure", 2, FALSE)
InboundUrlBody == Body("in_1", "received", 2, TRUE)
InboundBody == Body("in_1", "received", 2, FALSE)
NoSidBody == Body("", "received", 2, FALSE)

WebhookConfigs ==
    { [DefaultSettings EXCEPT !.phaxio_api_key = IF c THEN "pk" ELSE "",
                              !.phaxio_api_secret = IF c THEN "psecret" ELSE "",
                              !.phaxio_verify_signature = v] :
        c \in BOOLEAN, v \in BOOLEAN }

SignedStatusRequests ==
    UNION { { Req("phaxio_callback", sig, <<"", "">>, b, j) :
                sig \in SigsFor(b), j \in 0..MaxWebhookJobs } :
            b \in {SuccessBody, FailureBody} }

\* the delivery whose replays are observed
ObservedRequests ==
    { Req("phaxio_callback", Sign("psecret", SuccessBody, FALSE), <<"", "">>, SuccessBody, 1) }

InitWebhook == InitWith(WebhookConfigs, ObservedRequests)

SubmitPdf == Len(jobs) < MaxWebhookJobs /\ SendFax(NULL, ValidTo, "pdf")
SignedStatusWebhook == \E req \in SignedStatusRequests : phaxio_callback(req)
ClockHalfMinute == Tick(HalfMinute)

NextWebhook ==
    \/ SubmitPdf
    \/ Start
    \/ SendReturns
    \/ SendRaises
    \/ SignedStatusWebhook
    \/ ClockHalfMinute

SpecWebhook == InitWebhook /\ [][NextWebhook]_vars

\* status callbacks against jobs the provider accepted, no delivery observed
InitCallback == InitWith(WebhookConfigs, {NoReq})

NextCallback ==
    \/ SubmitPdf
    \/ Start
    \/ SendReturns
    \/ SignedStatusWebhook

SpecCallback == InitCallback /\ [][NextCallback]_vars

\* --- the inbound webhooks in every authentication configuration
InboundConfigs ==
    { [DefaultSettings EXCEPT !.phaxio_api_key = IF c THEN "pk" ELSE "",
                              !.phaxio_api_secret = IF c THEN "psecret" ELSE "",
                              !.phaxio_inbound_verify_signature = v,
                              !.inbound_enabled = e,
                              !.sinch_inbound_basic_user = IF u THEN "user" ELSE "",
                              !.sinch_inbound_basic_pass = IF u THEN "pass" ELSE "",
                              !.sinch_inbound_hmac_secret = IF h THEN "ssecret" ELSE ""] :
        c \in BOOLEAN, v \in BOOLEAN, e \in BOOLEAN, u \in BOOLEAN, h \in BOOLEAN }

InboundRequests(op, bodies) ==
    UNION { { Req(op, sig, basic, b, 0) :
                sig \in SigsFor(b),
                basic \in IF op = "sinch_inbound" THEN BasicAuths ELSE {<<"", "">>} } :
            b \in bodies }

SignedInboundRequests(op) == InboundRequests(op, {InboundUrlBody, InboundBody, NoSidBody})

InitInbound == InitWith(InboundConfigs, {NoReq})

PhaxioInboundWebhook == \E req \in SignedInboundRequests("phaxio_inbound") : phaxio_inbound(req)
SinchInboundWebhook == \E req \in SignedInboundRequests("sinch_inbound") : sinch_inbound(req)
FetchReturns == \E req \in handlers, fetched \in BOOLEAN : InboundResumes(req, fetched)

NextInbound ==
    \/ PhaxioInboundWebhook
    \/ SinchInboundWebhook
    \/ FetchReturns

SpecInbound == InitInbound /\ [][NextInbound]_vars

\* --- all three webhook endpoints with signature verification switched on
SignatureConfigs ==
    { [DefaultSettings EXCEPT !.phaxio_api_key = "pk",
                              !.phaxio_api_secret = "psecret",
                              !.phaxio_verify_signature = TRUE,
                              !.phaxio_inbound_verify_signature = TRUE,
                              !.inbound_enabled = e,
                              !.sinch_inbound_basic_user = IF u THEN "user" ELSE "",
                              !.sinch_inbound_basic_pass = IF u THEN "pass" ELSE "",
                              !.sinch_inbound_hmac_secret = "ssecret"] :
        e \in BOOLEAN, u \in BOOLEAN }

InitSignature == InitWith(SignatureConfigs, {NoReq})

\* inbound deliveries that carry the document inline (no file_url to fetch)
InlineInboundRequests(op) == InboundRequests(op, {InboundBody, NoSidBody})

SignatureRequests ==
    SignedStatusRequests \cup InlineInboundRequests("phaxio_inbound")
                         \cup InlineInboundRequests("sinch_inbound")

PhaxioInlineInbound == \E req \in InlineInboundRequests("phaxio_inbound") : phaxio_inbound(req)
SinchInlineInbound == \E req \in InlineInboundRequests("sinch_inbound") : sinch_inbound(req)

NextSignature ==
    \/ SubmitPdf
    \/ SignedStatusWebhook
    \/ PhaxioInlineInbound
    \/ SinchInlineInbound

SpecSignature == InitSignature /\ [][NextSignature]_vars

\* --- the per-key rate limiter of POST /fax and GET /fax/{id}
RateConfigs ==
    { [DefaultSettings EXCEPT !.api_key = k, !.require_api_key = r,
                              !.max_requests_per_minute = n] :
        k \in {"", "envkey"}, r \in BOOLEAN, n \in {0, 1, 2} }

RateKeys == {NULL, "dbkey", "envkey"}

InitRate == InitWith(RateConfigs, {NoReq})

RateSubmit ==
    /\ BagCardinality(hist.log) < MaxRequests
    /\ \E key \in RateKeys, to \in {ValidTo, InvalidTo} :
          /\ to = ValidTo => Len(jobs) < MaxWebhookJobs
          /\ SendFax(key, to, "pdf")
RatePoll ==
    /\ BagCardinality(hist.log) < MaxRequests
    /\ \E key \in RateKeys : GetFax(key, 1)

NextRate ==
    \/ RateSubmit
    \/ RatePoll
    \/ ClockHalfMinute

SpecRate == InitRate /\ [][NextRate]_vars

\* --- the tokenized PDF endpoint of the Phaxio backend
TokenConfigs ==
    { [DefaultSettings EXCEPT !.phaxio_api_key = "pk",
                              !.phaxio_api_secret = "psecret",
                              !.pdf_token_ttl_minutes = t] : t \in {1, 2} }

PresentedTokens ==
    {NoToken, NewToken("bad", 0)} \cup { NewToken("out", id) : id \in 1..MaxWebhookJobs }

InitToken == InitWith(TokenConfigs, {NoReq})

FetchPdf ==
    \E id \in 1..(MaxWebhookJobs + 1), token \in PresentedTokens : get_fax_pdf(id, token)

ClockMinute == Tick(SecondsPerMinute)

NextToken ==
    \/ SubmitPdf
    \/ Start
    \/ FetchPdf
    \/ ClockMinute

SpecToken == InitToken /\ [][NextToken]_vars

\* --- the retention sweep over finished jobs
SweepConfigs ==
    { [DefaultSettings EXCEPT !.fax_backend = b,
                              !.phaxio_api_key = "pk",
                              !.phaxio_api_secret = "psecret",
                              !.artifact_ttl_days = t] :
        b \in {"phaxio", "sip"}, t \in {0, 1, 2} }

InitSweep == InitWith(SweepConfigs, {NoReq})

Sweep == _cleanup_once
ClockDay == Tick(SecondsPerDay)

NextSweep ==
    \/ SubmitPdf
    \/ Start
    \/ SendReturns
    \/ SendRaises
    \/ Poll
    \/ Sweep
    \/ ClockDay

SpecSweep == InitSweep /\ [][NextSweep]_vars

\* --- validation of a submission
Repeat(c, n) == [i \in 1..n |-> c]

Destinations ==
    { ValidTo,
      InvalidTo,
      <<>>,
      <<"+">>,
      Repeat("5", MinPhoneDigits),
      Repeat("5", MinPhoneDigits - 1),
      <<"+">> \o Repeat("5", MaxPhoneDigits),
      Repeat("5", MaxPhoneDigits + 1),
      <<"5", "5", "5", "+", "1", "2", "3">>,
      <<"5", "5", "5", " ", "1", "2", "3">>,
      ValidTo \o <<"LF">>,
      ValidTo \o <<"LF", "LF">>,
      Repeat("ar3", MinPhoneDigits) }

SubmitConfigs ==
    { [DefaultSettings EXCEPT !.fax_backend = b, !.fax_disabled = d] :
        b \in {"phaxio", "sip"}, d \in BOOLEAN }

InitSubmit == InitWith(SubmitConfigs, {NoReq})

SubmitAny == \E to \in Destinations, doc \in Documents : SendFax(NULL, to, doc)

NextSubmit ==
    \/ SubmitAny
    \/ Poll

SpecSubmit == InitSubmit /\ [][NextSubmit]_vars

(***************************************************************************)
(* Key management: the admin surface in front of the key table, and        *)
(* requests that present a credential.                                     *)
(***************************************************************************)
KeyIds == {"k1", "k2"}
FirstToken(key_id) == IF key_id = "k1" THEN "dbkey" ELSE "dbkey-b"
\* the secret a rotation issues in place of this one
NextSecret(token) == IF token = "dbkey" THEN "dbkey-r" ELSE "dbkey-b-r"
ScopeSets == {{"keys:manage"}, {"*"}}
Expiries == {NoInt, SecondsPerMinute}

create_api_key(scopes, expires_at) ==
    LET key_id == CHOOSE id \in KeyIds : \A k \in api_keys : k.key_id # id
    IN api_keys \cup { [key_id |-> key_id, token |-> FirstToken(key_id),
                        scopes |-> scopes, revoked |-> FALSE,
                        expires_at |-> expires_at] }

revoke_api_key(key_id) ==
    { IF k.key_id = key_id THEN [k EXCEPT !.revoked = TRUE] ELSE k : k \in api_keys }

rotate_api_key(key_id) ==
    { IF k.key_id = key_id THEN [k EXCEPT !.token = NextSecret(k.token)] ELSE k :
        k \in api_keys }

KeyFound(key_id) == \E k \in api_keys : k.key_id = key_id

AdminFrame ==
    UNCHANGED <<settings, now, rate_buckets, jobs, tasks, files, events,
                inbound, handlers, hist>>

admin_create_api_key(x_api_key, scopes, expires_at) ==
    /\ \E id \in KeyIds : ~KeyFound(id)
    /\ IF require_admin(x_api_key) # 200
       THEN /\ resp' = Error("admin_create_api_key", require_admin(x_api_key),
                             "Admin authentication failed")
            /\ UNCHANGED api_keys
       ELSE /\ api_keys' = create_api_key(scopes, expires_at)
            /\ resp' = Error("admin_create_api_key", 200, "")
    /\ AdminFrame

admin_list_api_keys(x_api_key) ==
    /\ resp' = IF require_admin(x_api_key) # 200
               THEN Error("admin_list_api_keys", require_admin(x_api_key),
                          "Admin authentication failed")
               ELSE Error("admin_list_api_keys", 200, "")
    /\ UNCHANGED api_keys
    /\ AdminFrame

admin_revoke_api_key(x_api_key, key_id) ==
    /\ IF require_admin(x_api_key) # 200
       THEN /\ resp' = Error("admin_revoke_api_key", require_admin(x_api_key),
                             "Admin authentication failed")
            /\ UNCHANGED api_keys
       ELSE IF ~KeyFound(key_id)
       THEN /\ resp' = Error("admin_revoke_api_key", 404, "Key not found")
            /\ UNCHANGED api_keys
       ELSE /\ api_keys' = revoke_api_key(key_id)
            /\ resp' = Error("admin_revoke_api_key", 200, "")
    /\ AdminFrame

admin_rotate_api_key(x_api_key, key_id) ==
    /\ IF require_admin(x_api_key) # 200
       THEN /\ resp' = Error("admin_rotate_api_key", require_admin(x_api_key),
                             "Admin authentication failed")
            /\ UNCHANGED api_keys
       ELSE IF ~KeyFound(key_id)
       THEN /\ resp' = Error("admin_rotate_api_key", 404, "Key not found")
            /\ UNCHANGED api_keys
       ELSE /\ api_keys' = rotate_api_key(key_id)
            /\ resp' = Error("admin_rotate_api_key", 200, "")
    /\ AdminFrame

AuthConfigs ==
    { [DefaultSettings EXCEPT !.api_key = k, !.require_api_key = r] :
        k \in {"", "envkey"}, r \in BOOLEAN }

\* every secret the key table can hold, the bootstrap key, an unknown
\* credential and no credential
Credentials ==
    {NULL, "envkey", "unknown"}
        \cup {FirstToken(id) : id \in KeyIds}
        \cup {NextSecret(FirstToken(id)) : id \in KeyIds}

InitAuth == InitWith(AuthConfigs, {NoReq})

CreateKey ==
    \E c \in Credentials, scopes \in ScopeSets, e \in Expiries :
        admin_create_api_key(c, scopes, e)
ListKeys == \E c \in Credentials : admin_list_api_keys(c)
RevokeKey == \E c \in Credentials, id \in KeyIds \cup {"k9"} : admin_revoke_api_key(c, id)
RotateKey ==
    \E c \in Credentials, id \in KeyIds :
        /\ \A k \in api_keys : k.key_id = id => k.token = FirstToken(id)
        /\ admin_rotate_api_key(c, id)
KeyedSubmit ==
    /\ \E c \in Credentials : SendFax(c, InvalidTo, "pdf")
    /\ BagCardinality(hist'.log) <= MaxKeyedRequests
KeyedPoll ==
    /\ \E c \in Credentials : GetFax(c, 1)
    /\ BagCardinality(hist'.log) <= MaxKeyedRequests

NextAuth ==
    \/ CreateKey
    \/ ListKeys
    \/ RevokeKey
    \/ RotateKey
    \/ KeyedSubmit
    \/ KeyedPoll
    \/ ClockHalfMinute

SpecAuth == InitAuth /\ [][NextAuth]_vars

\* the admin surface alone
NextAdmin ==
    \/ CreateKey
    \/ ListKeys
    \/ RevokeKey
    \/ RotateKey
    \/ ClockHalfMinute

SpecAdmin == InitAuth /\ [][NextAdmin]_vars

(***************************************************************************)
(* Artifact fetches: GET /fax/{id}/pdf and GET /inbound/{id}/pdf.          *)
(***************************************************************************)
InboundPdfResp(id, token, rc, detail) ==
    [NoResp EXCEPT !.op = "get_inbound_pdf", !.rc = rc, !.detail = detail,
                   !.id = id, !.tok = token]

\* `fx.pdf_token_expires_at and datetime.utcnow() > fx.pdf_token_expires_at`
InboundTokenExpired(fx) ==
    fx.pdf_token_expires_at # NoInt /\ now > fx.pdf_token_expires_at

\* GET /inbound/{inbound_id}/pdf?token=...; the route depends on
\* require_api_key, which runs before the body of the handler
get_inbound_pdf(id, token, x_api_key) ==
    LET info == require_api_key(x_api_key)
        byToken == /\ id \in DOMAIN inbound
                   /\ token # NoToken
                   /\ inbound[id].pdf_token # NoToken
                   /\ token = inbound[id].pdf_token
        byScope == info # Anonymous /\ _has_scope(info, "inbound:read")
        limited == IF settings.inbound_get_rpm # 0
                   THEN _enforce_rate_limit(info, "/inbound/{id}/pdf",
                                            settings.inbound_get_rpm)
                   ELSE [rc |-> 200, buckets |-> rate_buckets]
    IN /\ IF info.rc # 200
          THEN /\ resp' = InboundPdfResp(id, token, info.rc, "Invalid or missing API key")
               /\ UNCHANGED rate_buckets
          ELSE IF ~settings.inbound_enabled
          THEN /\ resp' = InboundPdfResp(id, token, 404, "Inbound not enabled")
               /\ UNCHANGED rate_buckets
          ELSE IF id \notin DOMAIN inbound
          THEN /\ resp' = InboundPdfResp(id, token, 404, "Inbound fax not found")
               /\ UNCHANGED rate_buckets
          ELSE IF byToken /\ InboundTokenExpired(inbound[id])
          THEN /\ resp' = InboundPdfResp(id, token, 403, "Token expired")
               /\ UNCHANGED rate_buckets
          ELSE IF ~byToken /\ ~byScope
          THEN /\ resp' = InboundPdfResp(id, token, 403, "Forbidden")
               /\ UNCHANGED rate_buckets
          ELSE IF ~byToken /\ limited.rc # 200
          THEN /\ resp' = InboundPdfResp(id, token, limited.rc, "Rate limit exceeded")
               /\ rate_buckets' = limited.buckets
          ELSE /\ resp' = IF <<"in", id>> \notin files
                          THEN InboundPdfResp(id, token, 404, "PDF file not found")
                          ELSE InboundPdfResp(id, token, 200, "pdf")
               /\ rate_buckets' = IF byToken THEN rate_buckets ELSE limited.buckets
       /\ UNCHANGED <<settings, now, api_keys, jobs, tasks, files, events,
                      inbound, handlers, hist>>

ArtifactConfigs ==
    { [DefaultSettings EXCEPT !.phaxio_api_key = "pk",
                              !.phaxio_api_secret = "psecret",
                              !.phaxio_inbound_verify_signature = FALSE,
                              !.inbound_enabled = TRUE,
                              !.inbound_get_rpm = 0,
                              !.pdf_token_ttl_minutes = 1,
                              !.inbound_token_ttl_minutes = 1,
                              !.api_key = k,
                              !.require_api_key = r] :
        k \in {"", "envkey"}, r \in BOOLEAN }

ArtifactKeys == {NULL, "envkey"}
ArtifactTokens == {NoToken, NewToken("bad", 0), NewToken("out", 1), NewToken("in", 1)}

InitArtifact == InitWith(ArtifactConfigs, {NoReq})

ArtifactSubmit ==
    /\ Len(jobs) < MaxWebhookJobs
    /\ \E key \in ArtifactKeys : SendFax(key, ValidTo, "pdf")
\* the provider's notice of one received fax whose PDF travels inline
InboundNotice == Req("phaxio_inbound", NoSig, <<"", "">>, InboundBody, 0)

ArtifactInbound == phaxio_inbound(InboundNotice)
FetchInboundPdf ==
    \E id \in 1..(MaxInbound + 1), token \in ArtifactTokens, key \in ArtifactKeys :
        get_inbound_pdf(id, token, key)
FetchOutboundPdf ==
    \E id \in 1..(MaxWebhookJobs + 1), token \in ArtifactTokens : get_fax_pdf(id, token)

NextArtifact ==
    \/ ArtifactSubmit
    \/ Start
    \/ ArtifactInbound
    \/ FetchInboundPdf
    \/ FetchOutboundPdf
    \/ ClockMinute

SpecArtifact == InitArtifact /\ [][NextArtifact]_vars

(***************************************************************************)
(* Error text on the read paths (sanitize_error, get_fax, admin job        *)
(* routes).                                                                *)
(***************************************************************************)
MinDigitRun == 6
MaxErrorLen == 80

\* error texts longer than, and as long as, the truncation length
LongError ==
    "xxxxxxxxxxxxxxxxxxxxxxxxxxxxxxxxxxxxxxxxxxxxxxxxxxxxxxxxxxxxxxxxxxxxxxxxxxxxxxxxx"
LongErrorCut ==
    "xxxxxxxxxxxxxxxxxxxxxxxxxxxxxxxxxxxxxxxxxxxxxxxxxxxxxxxxxxxxxxxxxxxxxxxxxxxxxxxx"

\* the characters of an error text
Chars(text) ==
    CASE text = "no carrier" ->
             <<"n", "o", " ", "c", "a", "r", "r", "i", "e", "r">>
      [] text = "busy +15551234567" ->
             <<"b", "u", "s", "y", " ", "+", "1", "5", "5", "5", "1", "2", "3", "4",
             "5", "6", "7">>
      [] text = "busy ***" ->
             <<"b", "u", "s", "y", " ", "*", "*", "*">>
      [] text = "code 12345" ->
             <<"c", "o", "d", "e", " ", "1", "2", "3", "4", "5">>
      [] text = "fax failed" ->
             <<"f", "a", "x", " ", "f", "a", "i", "l", "e", "d">>
      [] text = "backend error" ->
             <<"b", "a", "c", "k", "e", "n", "d", " ", "e", "r", "r", "o", "r">>
      [] text = "Phaxio is not properly configured" ->
             <<"P", "h", "a", "x", "i", "o", " ", "i", "s", " ", "n", "o", "t", " ",
             "p", "r", "o", "p", "e", "r", "l", "y", " ", "c", "o", "n", "f", "i",
             "g", "u", "r", "e", "d">>
      [] text = "Sinch Fax is not properly configured" ->
             <<"S", "i", "n", "c", "h", " ", "F", "a", "x", " ", "i", "s", " ", "n",
             "o", "t", " ", "p", "r", "o", "p", "e", "r", "l", "y", " ", "c", "o",
             "n", "f", "i", "g", "u", "r", "e", "d">>
      [] text = LongError -> Repeat("x", MaxErrorLen + 1)
      [] text = LongErrorCut -> Repeat("x", MaxErrorLen)

Texts ==
    { "no carrier",
      "busy +15551234567",
      "busy ***",
      "code 12345",
      "fax failed",
      "backend error",
      "Phaxio is not properly configured",
      "Sinch Fax is not properly configured",
      LongError, LongErrorCut }

\* the text with these characters
Str(chars) == CHOOSE text \in Texts : Chars(text) = chars

\* length of the longest prefix of s made of \d characters
DigitRun(s) ==
    CHOOSE n \in 0..Len(s) :
        /\ \A k \in 1..n : s[k] \in Digits
        /\ n = Len(s) \/ s[n + 1] \notin Digits

\* number of leading characters of s at which no match can start
Plain(s) ==
    CHOOSE n \in 0..Len(s) :
        /\ \A k \in 1..n : s[k] # "+" /\ s[k] \notin Digits
        /\ n = Len(s) \/ s[n + 1] = "+" \/ s[n + 1] \in Digits

\* re.sub(r"\+?\d{6,}", "***", text) on the characters of text: the scan
\* copies the characters up to the next "+" or digit, then replaces an
\* optional "+" with its run of six or more digits, or copies the "+" and
\* the shorter run
RECURSIVE SubDigitRuns(_)
SubDigitRuns(s) ==
    IF s = <<>> THEN <<>>
    ELSE IF Plain(s) > 0
    THEN SubSeq(s, 1, Plain(s)) \o SubDigitRuns(SubSeq(s, Plain(s) + 1, Len(s)))
    ELSE LET plus == IF Head(s) = "+" THEN 1 ELSE 0
             run == DigitRun(SubSeq(s, plus + 1, Len(s)))
         IN IF run >= MinDigitRun
            THEN <<"*", "*", "*">> \o SubDigitRuns(SubSeq(s, plus + run + 1, Len(s)))
            ELSE SubSeq(s, 1, plus + run)
                     \o SubDigitRuns(SubSeq(s, plus + run + 1, Len(s)))

\* sanitized[:80]
Truncate(s) == SubSeq(s, 1, IF Len(s) < MaxErrorLen THEN Len(s) ELSE MaxErrorLen)

sanitize_error(text) ==
    IF text = NULL \/ text = "" THEN NULL
    ELSE Str(Truncate(SubDigitRuns(Chars(text))))

AdminJobResp(op, id, job) ==
    [NoResp EXCEPT !.op = op, !.rc = 200, !.id = id, !.status = job.status,
                   !.error = sanitize_error(job.error)]

ReadFrame ==
    UNCHANGED <<settings, now, api_keys, rate_buckets, jobs, tasks, files,
                events, inbound, handlers, hist>>

\* GET /admin/fax-jobs/{job_id}
get_admin_job(x_api_key, id) ==
    /\ resp' = IF require_admin(x_api_key) # 200
               THEN Error("get_admin_job", require_admin(x_api_key),
                          "Admin authentication failed")
               ELSE IF id \notin DOMAIN jobs
               THEN Error("get_admin_job", 404, "Job not found")
               ELSE AdminJobResp("get_admin_job", id, jobs[id])
    /\ ReadFrame

\* the rows `order_by(created_at.desc()).offset(offset).limit(1)` can
\* return: rows of one creation time come in any order
RowsAt(offset) ==
    { id \in DOMAIN jobs :
        /\ Cardinality({ o \in DOMAIN jobs : jobs[o].created_at > jobs[id].created_at })
             <= offset
        /\ offset
             < Cardinality({ o \in DOMAIN jobs : jobs[o].created_at >= jobs[id].created_at }) }

\* GET /admin/fax-jobs?limit=1&offset=...
list_admin_jobs(x_api_key, offset) ==
    /\ IF require_admin(x_api_key) # 200
       THEN resp' = Error("list_admin_jobs", require_admin(x_api_key),
                          "Admin authentication failed")
       ELSE IF RowsAt(offset) = {}
       THEN resp' = Error("list_admin_jobs", 200, "")
       ELSE \E id \in RowsAt(offset) :
               resp' = AdminJobResp("list_admin_jobs", id, jobs[id])
    /\ ReadFrame

ReadConfigs ==
    { [DefaultSettings EXCEPT !.fax_backend = "sip", !.api_key = "envkey"] }

ReadKeys == {NULL, "envkey"}
ErrorTexts == {NULL, "no carrier", "busy +15551234567", "code 12345", LongError}

InitRead == InitWith(ReadConfigs, {NoReq})

ReadSubmit ==
    /\ Len(jobs) < MaxWebhookJobs
    /\ SendFax("envkey", ValidTo, "pdf")
ResultEvent ==
    \E id \in 1..MaxWebhookJobs, st \in {NULL, "FAILED"}, e \in ErrorTexts :
        _handle_fax_result(id, st, e, 0)
ReadJob ==
    /\ \E key \in ReadKeys, id \in 1..(MaxWebhookJobs + 1) : GetFax(key, id)
    /\ BagCardinality(hist'.log) <= MaxRequests
ReadAdminJob ==
    \E key \in ReadKeys, id \in 1..(MaxWebhookJobs + 1) : get_admin_job(key, id)
ReadAdminJobs ==
    \E key \in ReadKeys, offset \in 0..MaxWebhookJobs : list_admin_jobs(key, offset)

NextRead ==
    \/ ReadSubmit
    \/ Start
    \/ SendReturns
    \/ ResultEvent
    \/ ReadJob
    \/ ReadAdminJob
    \/ ReadAdminJobs

SpecRead == InitRead /\ [][NextRead]_vars

(***************************************************************************)
(* The writers of a job row: dispatch tasks of the three backends, status  *)
(* callbacks and telephony result events.                                  *)
(***************************************************************************)
JobsConfigs ==
    { [DefaultSettings EXCEPT !.fax_backend = b,
                              !.phaxio_api_key = IF c THEN "pk" ELSE "",
                              !.phaxio_api_secret = IF c THEN "psecret" ELSE "",
                              !.sinch_configured = c,
                              !.phaxio_verify_signature = FALSE] :
        b \in {"phaxio", "sinch", "sip"}, c \in BOOLEAN }

\* the Status field of a FaxResult event is whatever the dialplan put there
EventStatuses == AmiStatuses \cup {"BUSY"}

JobStatusRequests ==
    { Req("phaxio_callback", NoSig, <<"", "">>, b, j) :
        b \in StatusBodies, j \in 0..MaxWebhookJobs }

InitJobs == InitWith(JobsConfigs, {NoReq})

JobStatusWebhook == \E req \in JobStatusRequests : phaxio_callback(req)
JobResultEvent ==
    \E id \in 1..MaxWebhookJobs, st \in EventStatuses, e \in AmiErrors, pg \in AmiPages :
        _handle_fax_result(id, st, e, pg)

NextJobs ==
    \/ SubmitPdf
    \/ Start
    \/ SendReturns
    \/ SendRaises
    \/ JobStatusWebhook
    \/ JobResultEvent

SpecJobs == InitJobs /\ [][NextJobs]_vars

(***************************************************************************)
(* Job and inbound rows under retention sweeps: submissions, dispatch      *)
(* outcomes, a status callback, an inbound fax and the daily sweep.        *)
(***************************************************************************)
RowsConfigs ==
    { [DefaultSettings EXCEPT !.phaxio_api_key = "pk",
                              !.phaxio_api_secret = "psecret",
                              !.phaxio_verify_signature = FALSE,
                              !.phaxio_inbound_verify_signature = FALSE,
                              !.inbound_enabled = TRUE,
                              !.inbound_retention_days = 1,
                              !.artifact_ttl_days = 1] }

InitRows == InitWith(RowsConfigs, {NoReq})

RowsSubmit == Len(jobs) + Len(inbound) < MaxRows /\ SubmitPdf
RowsInbound == Len(jobs) + Len(inbound) < MaxRows /\ ArtifactInbound
\* the provider's failure report for a job
RowsStatusRequests ==
    { Req("phaxio_callback", NoSig, <<"", "">>, FailureBody, j) :
        j \in 1..MaxWebhookJobs }

RowsStatusWebhook == \E req \in RowsStatusRequests : phaxio_callback(req)

NextRows ==
    \/ RowsSubmit
    \/ Start
    \/ SendReturns
    \/ SendRaises
    \/ RowsStatusWebhook
    \/ RowsInbound
    \/ Sweep
    \/ ClockDay

SpecRows == InitRows /\ [][NextRows]_vars

(***************************************************************************)
(* Sweeps in which one file removal raises.                                *)
(***************************************************************************)
FaultyConfigs ==
    { [DefaultSettings EXCEPT !.fax_backend = "sip",
                              !.phaxio_inbound_verify_signature = FALSE,
                              !.inbound_enabled = TRUE,
                              !.inbound_retention_days = 1,
                              !.artifact_ttl_days = 1] }

InitFaulty == InitWith(FaultyConfigs, {NoReq})

\* the removals that may raise
FailurePoints ==
    { <<k, id>> : k \in {"pdf", "tiff", "orig"}, id \in 1..MaxWebhookJobs }
        \cup { <<"in", i>> : i \in 1..MaxInbound }

FaultySweep ==
    \E failing \in {{}} \cup {{f} : f \in FailurePoints} : _cleanup_pass(failing)

NextFaulty ==
    \/ SubmitPdf
    \/ Start
    \/ SendRaises
    \/ ArtifactInbound
    \/ FaultySweep
    \/ ClockDay

SpecFaulty == InitFaulty /\ [][NextFaulty]_vars

(***************************************************************************)
(* The sweeper under fair scheduling: on_startup starts the loop when      *)
(* artifact_ttl_days > 0 and the loop then runs a pass every interval.     *)
(***************************************************************************)
RetentionConfigs ==
    { [DefaultSettings EXCEPT !.fax_backend = "sip",
                              !.phaxio_inbound_verify_signature = FALSE,
                              !.inbound_enabled = TRUE,
                              !.inbound_retention_days = 1,
                              !.artifact_ttl_days = t] : t \in {0, 1} }

InitRetention == InitWith(RetentionConfigs, {NoReq})

NextRetention ==
    \/ SubmitPdf
    \/ Start
    \/ SendRaises
    \/ ArtifactInbound
    \/ Sweep
    \/ ClockDay

SpecRetention == InitRetention /\ [][NextRetention]_vars /\ WF_vars(Sweep)

(***************************************************************************)
(* Inbound listing routes and the reload of the settings.                  *)
(***************************************************************************)
\* settings.inbound_list_rpm and settings.inbound_get_rpm as they were when
\* main.py was imported: the route decorators pass them to require_scopes
ImportedListRpm == 1
ImportedGetRpm == 1

\* the dependency require_scopes([required], path, rpm) builds: [rc, buckets]
require_scopes(x_api_key, required, path, rpm) ==
    LET info == require_api_key(x_api_key)
    IN IF info.rc # 200 THEN [rc |-> info.rc, buckets |-> rate_buckets]
       ELSE IF info = Anonymous /\ ~settings.require_api_key /\ settings.api_key = ""
       THEN [rc |-> 200, buckets |-> rate_buckets]
       ELSE IF ~_has_scope(info, required)
       THEN [rc |-> 403, buckets |-> rate_buckets]
       ELSE IF rpm # 0
       THEN _enforce_rate_limit(info, path, rpm)
       ELSE [rc |-> 200, buckets |-> rate_buckets]

InboundFrame == UNCHANGED <<settings, now, api_keys, jobs, tasks, files, events,
                            inbound, handlers>>

\* GET /inbound
list_inbound(x_api_key) ==
    LET dep == require_scopes(x_api_key, "inbound:list", "/inbound", ImportedListRpm)
    IN /\ rate_buckets' = dep.buckets
       /\ resp' = IF dep.rc # 200 THEN Error("list_inbound", dep.rc, "auth")
                  ELSE IF ~settings.inbound_enabled
                  THEN Error("list_inbound", 404, "Inbound not enabled")
                  ELSE [NoResp EXCEPT !.op = "list_inbound", !.rc = 200]
       /\ hist' = Logged(x_api_key, "/inbound")
       /\ InboundFrame

\* GET /inbound/{inbound_id}
get_inbound(x_api_key, id) ==
    LET dep == require_scopes(x_api_key, "inbound:read", "/inbound/{id}", ImportedGetRpm)
    IN /\ rate_buckets' = dep.buckets
       /\ resp' = IF dep.rc # 200 THEN Error("get_inbound", dep.rc, "auth")
                  ELSE IF ~settings.inbound_enabled
                  THEN Error("get_inbound", 404, "Inbound not enabled")
                  ELSE IF id \notin DOMAIN inbound
                  THEN Error("get_inbound", 404, "Inbound fax not found")
                  ELSE [NoResp EXCEPT !.op = "get_inbound", !.rc = 200, !.id = id]
       /\ hist' = Logged(x_api_key, "/inbound/{id}")
       /\ InboundFrame

\* config.reload_settings after the environment set the three limits
reload_settings(list_rpm, get_rpm, max_rpm) ==
    [settings EXCEPT !.inbound_list_rpm = list_rpm,
                     !.inbound_get_rpm = get_rpm,
                     !.max_requests_per_minute = max_rpm]

\* POST /admin/settings/reload
admin_reload_settings(x_api_key, list_rpm, get_rpm, max_rpm) ==
    /\ IF require_admin(x_api_key) # 200
       THEN /\ resp' = Error("admin_reload_settings", 401, "Admin authentication failed")
            /\ UNCHANGED settings
       ELSE /\ resp' = [NoResp EXCEPT !.op = "admin_reload_settings", !.rc = 200]
            /\ settings' = reload_settings(list_rpm, get_rpm, max_rpm)
    /\ UNCHANGED <<now, api_keys, rate_buckets, jobs, tasks, files, events, inbound,
                   handlers, hist>>

ReloadConfigs ==
    { [DefaultSettings EXCEPT !.api_key = "envkey",
                              !.require_api_key = TRUE,
                              !.inbound_enabled = TRUE,
                              !.inbound_list_rpm = ImportedListRpm,
                              !.inbound_get_rpm = ImportedGetRpm,
                              !.max_requests_per_minute = 1] }

Limits == {1, 2}

InitReload == InitWith(ReloadConfigs, {NoReq})

ReloadKeys == {"dbkey", "envkey"}

ReloadList ==
    /\ BagCardinality(hist.log) < MaxRequests
    /\ \E key \in ReloadKeys : list_inbound(key)
ReloadGet ==
    /\ BagCardinality(hist.log) < MaxRequests
    /\ \E key \in ReloadKeys : get_inbound(key, 1)
ReloadPoll ==
    /\ BagCardinality(hist.log) < MaxRequests
    /\ \E key \in ReloadKeys : GetFax(key, 1)
Reload ==
    \E key \in ReloadKeys, l \in Limits, g \in Limits, m \in Limits :
        admin_reload_settings(key, l, g, m)

NextReload ==
    \/ ReloadList
    \/ ReloadGet
    \/ ReloadPoll
    \/ Reload
    \/ ClockHalfMinute

SpecReload == InitReload /\ [][NextReload]_vars

(***************************************************************************)
(* Submissions with sending enabled and with sending globally disabled.    *)
(***************************************************************************)
DisabledConfigs ==
    { [DefaultSettings EXCEPT !.fax_backend = b, !.fax_disabled = d,
                              !.phaxio_api_key = "pk",
                              !.phaxio_api_secret = "psecret",
                              !.sinch_configured = TRUE,
                              !.phaxio_verify_signature = FALSE] :
        b \in {"phaxio", "sinch", "sip"}, d \in BOOLEAN }

InitDisabled == InitWith(DisabledConfigs, {NoReq})

PollJob == \E id \in 1..MaxWebhookJobs : GetFax(NULL, id)

NextDisabled ==
    \/ SubmitPdf
    \/ PollJob
    \/ Start
    \/ SendReturns
    \/ SendRaises
    \/ JobStatusWebhook

SpecDisabled == InitDisabled /\ [][NextDisabled]_vars

(***************************************************************************)
(* The same writers under a running clock, one write of each kind.         *)
(***************************************************************************)
ClockConfigs == {c \in JobsConfigs : c.fax_backend = "sip" \/ c.sinch_configured}

InitClock == InitWith(ClockConfigs, {NoReq})

\* the provider's success report for a job
ClockStatusRequests ==
    { Req("phaxio_callback", NoSig, <<"", "">>, SuccessBody, j) :
        j \in 1..MaxWebhookJobs }

ClockStatusWebhook == \E req \in ClockStatusRequests : phaxio_callback(req)
ClockResultEvent ==
    \E id \in 1..MaxWebhookJobs : _handle_fax_result(id, "SUCCESS", NULL, 3)

NextClock ==
    \/ SubmitPdf
    \/ Start
    \/ SendReturns
    \/ SendRaises
    \/ ClockStatusWebhook
    \/ ClockResultEvent
    \/ ClockHalfMinute

SpecClock == InitClock /\ [][NextClock]_vars

(***************************************************************************)
(* Properties.                                                             *)
(***************************************************************************)
Rank(status) ==
    CASE status = "queued" -> 0
      [] status = "in_progress" -> 1
      [] OTHER -> 2

\* C1: the status of a job never moves backward in the order
\* queued -> in_progress -> {SUCCESS, FAILED}, and a job whose status is
\* SUCCESS, FAILED, failed or disabled keeps that status for ever.
C1_StatusNeverMovesBack ==
    [][ \A id \in DOMAIN jobs :
          /\ Rank(jobs'[id].status) >= Rank(jobs[id].status)
          /\ jobs[id].status \in final_statuses => jobs'[id].status = jobs[id].status
      ]_vars

\* C2: a delivery of the observed webhook after it was already processed
\* changes no job, no inbound fax and no receipt, and is answered with 200.
C2_ReplayChangesNothing ==
    [][ (hist.delivered >= 1 /\ hist'.delivered = hist.delivered + 1) =>
          /\ jobs' = jobs
          /\ inbound' = inbound
          /\ events' = events
          /\ resp'.rc = 200
      ]_vars

\* C3: once the observed event was delivered twice and no handler of it is
\* still running, exactly one receipt exists for its (provider_sid,
\* event_type) pair and its side effect was applied exactly once.
C3_OneReceiptOneEffect ==
    (hist.delivered >= 2 /\ hist.req \notin handlers) =>
        /\ Cardinality({k \in events : k = EventKey(hist.req)}) = 1
        /\ hist.applied = 1

\* C10: a submission answered with 202 carries a job id, and its status is
\* disabled when sending is globally turned off and queued otherwise; the
\* stored job a later GET serves has that same status at that moment.
C10_SubmitStatusFollowsMode ==
    (resp.op = "send_fax" /\ resp.rc = 202) =>
        /\ resp.id \in DOMAIN jobs
        /\ resp.status = IF settings.fax_disabled THEN "disabled" ELSE "queued"

\* the webhook deliveries of the three provider endpoints
WebhookRequests ==
    SignedStatusRequests \cup SignedInboundRequests("phaxio_inbound")
                         \cup SignedInboundRequests("sinch_inbound")

\* the step is the arrival of this request at its endpoint
Delivers(req) ==
    \/ req.op = "phaxio_callback" /\ phaxio_callback(req)
    \/ req.op = "phaxio_inbound" /\ phaxio_inbound(req)
    \/ req.op = "sinch_inbound" /\ sinch_inbound(req)

\* the verification flag and the shared secret of an endpoint
VerifyFlag(op) ==
    CASE op = "phaxio_callback" -> settings.phaxio_verify_signature
      [] op = "phaxio_inbound" -> settings.phaxio_inbound_verify_signature
      [] OTHER -> settings.sinch_inbound_verify_signature
SharedSecret(op) ==
    IF op = "sinch_inbound" THEN settings.sinch_inbound_hmac_secret
    ELSE settings.phaxio_api_secret

\* the body was altered after signing: a signature header is present and is
\* not the digest of the raw body under the endpoint's shared secret
Tampered(req) ==
    /\ req.sig.present
    /\ StripLower(req.sig) # HmacHex(SharedSecret(req.op), req.body)

StoreUnchanged ==
    /\ jobs' = jobs
    /\ events' = events
    /\ inbound' = inbound
    /\ files' = files
    /\ handlers' = handlers

C5_UnverifiableNeverProcessed ==
    [][ \A req \in WebhookRequests :
          ( /\ VerifyFlag(req.op)
            /\ (~req.sig.present \/ SharedSecret(req.op) = "")
            /\ Delivers(req) ) => StoreUnchanged
      ]_vars

\* the answer is 429 exactly when the request just logged is beyond the
\* N-th of its key on its route in its window
RateLimited(key, path) ==
    LET info == require_api_key(key)
    IN resp'.rc = 429 <=>
         CopiesIn(LogEntry(info.key_id, path), hist'.log)
           > settings.max_requests_per_minute

Authenticated(key) ==
    require_api_key(key).rc = 200 /\ require_api_key(key) # Anonymous

\* C6: with a limit N > 0, a request of an authenticated key on a route is
\* answered 429 exactly when it is at least the (N+1)-th request of that
\* key on that route in the current 60-second window: requests 1..N are
\* admitted and request N+1 is the first one rejected.
C6_RejectsFromRequestNPlus1 ==
    [][ \A key \in RateKeys :
          (Authenticated(key) /\ settings.max_requests_per_minute > 0) =>
              /\ (\E to \in {ValidTo, InvalidTo} : SendFax(key, to, "pdf"))
                    => RateLimited(key, "/fax")
              /\ GetFax(key, 1) => RateLimited(key, "/fax/{id}")
      ]_vars

\* with a limit of 2 the third request of a key on a route in one window
\* was answered 429
C6_ThirdRequestRejected ==
    /\ settings.max_requests_per_minute = 2
    /\ resp.rc = 429
    /\ \E e \in BagToSet(hist.log) :
          /\ e.window = now \div WindowSeconds
          /\ e.path = (IF resp.op = "send_fax" THEN "/fax" ELSE "/fax/{id}")
          /\ CopiesIn(e, hist.log) = 3

\* C7: a token issued with a TTL of t >= 1 minutes expires t minutes after
\* issue; presenting the stored token serves the PDF at every time not
\* later than the expiry and fails with 403 "Token expired" at every later
\* time.
C7_ValidUntilExpiry ==
    [][ \A id \in DOMAIN jobs :
          /\ ( /\ settings.pdf_token_ttl_minutes >= 1
               /\ jobs[id].pdf_token = NoToken
               /\ jobs'[id].pdf_token # NoToken )
                => jobs'[id].pdf_token_expires_at
                     = now + settings.pdf_token_ttl_minutes * SecondsPerMinute
          /\ ( /\ jobs[id].pdf_token # NoToken
               /\ <<"pdf", id>> \in files
               /\ get_fax_pdf(id, jobs[id].pdf_token) )
                => IF now <= jobs[id].pdf_token_expires_at
                   THEN resp'.rc = 200
                   ELSE resp'.rc = 403 /\ resp'.detail = "Token expired"
      ]_vars

\* a token issued with a TTL of one minute was refused as expired after it
\* had been issued at time 0
C7_ExpiredAfterOneMinute ==
    /\ settings.pdf_token_ttl_minutes = 1
    /\ resp.op = "get_fax_pdf"
    /\ resp.detail = "Token expired"
    /\ resp.id \in DOMAIN jobs
    /\ jobs[resp.id].pdf_token_expires_at = SecondsPerMinute
    /\ now > SecondsPerMinute

\* C8: for an existing job, a request without a stored token is answered
\* 404 "PDF not available", a token other than the stored one 403 "Invalid
\* token", the stored token after its expiry 403 "Token expired"; the PDF
\* is served only for the stored token at a time not after its expiry.
C8_ThreeTokenFailures ==
    [][ \A id \in DOMAIN jobs, token \in PresentedTokens :
          get_fax_pdf(id, token) =>
              LET stored == jobs[id].pdf_token
                  expired == now > jobs[id].pdf_token_expires_at
              IN /\ stored = NoToken
                      => resp'.rc = 404 /\ resp'.detail = "PDF not available"
                 /\ (stored # NoToken /\ token # stored)
                      => resp'.rc = 403 /\ resp'.detail = "Invalid token"
                 /\ (stored # NoToken /\ token = stored /\ expired)
                      => resp'.rc = 403 /\ resp'.detail = "Token expired"
                 /\ resp'.rc = 200
                      => stored # NoToken /\ token = stored /\ ~expired
      ]_vars

\* a wrong token was refused for a job that holds a token
C8_WrongTokenRefused ==
    /\ resp.op = "get_fax_pdf"
    /\ resp.detail = "Invalid token"
    /\ resp.id \in DOMAIN jobs
    /\ jobs[resp.id].pdf_token # NoToken
    /\ resp.tok # jobs[resp.id].pdf_token

\* C9: a sweep pass changes no job row, and after it no artifact file is
\* left of any job in a final status whose updated_at lies more than
\* artifact_ttl_days in the past.
C9_SweepRemovesFilesKeepsRow ==
    [][ _cleanup_once =>
          /\ jobs' = jobs
          /\ \A id \in DOMAIN jobs :
                ( /\ jobs[id].status \in final_statuses
                  /\ now - jobs[id].updated_at
                       > settings.artifact_ttl_days * SecondsPerDay )
                  => \A f \in files' : f[1] = "in" \/ f[2] # id
      ]_vars

\* a finished job whose files were swept is still served by GET /fax/{id}
\* with its status and error
C9_SweptJobStillServed ==
    /\ resp.op = "get_fax"
    /\ resp.rc = 200
    /\ resp.id \in DOMAIN jobs
    /\ jobs[resp.id].status \in final_statuses
    /\ resp.status = jobs[resp.id].status
    /\ resp.error = jobs[resp.id].error
    /\ \A f \in files : f[2] # resp.id
    /\ hist.swept # NoInt
    /\ hist.swept - jobs[resp.id].updated_at > settings.artifact_ttl_days * SecondsPerDay

\* the destination rule: an optional leading '+', then 6 to 20 digits 0-9,
\* nothing else
DestinationRule(to) ==
    LET body == IF to # <<>> /\ Head(to) = "+" THEN Tail(to) ELSE to
    IN /\ Len(body) \in MinPhoneDigits..MaxPhoneDigits
       /\ \A i \in 1..Len(body) : body[i] \in AsciiDigits

\* C11: a submission whose destination fails the rule is answered 400 and
\* leaves the job rows as they were.
C11_BadDestinationRejected ==
    [][ \A to \in Destinations, doc \in Documents :
          (~DestinationRule(to) /\ SendFax(NULL, to, doc)) =>
              (resp'.rc = 400 /\ jobs' = jobs)
      ]_vars

\* a database key that is neither revoked nor expired carries this secret
ValidDbKey(c) ==
    \E k \in api_keys :
        k.token = c /\ ~k.revoked /\ (k.expires_at = NoInt \/ now < k.expires_at)
ScopesOf(c) == UNION { k.scopes : k \in { r \in api_keys : r.token = c /\ ~r.revoked } }
AllScopes(info) == info.rc = 200 /\ info.key_id = "env" /\ info.scopes = {"*"}

AdminCredential(c) ==
    \/ settings.api_key # "" /\ c = settings.api_key
    \/ \E k \in api_keys :
          /\ k.token = c /\ ~k.revoked
          /\ (k.expires_at = NoInt \/ now < k.expires_at)
          /\ "keys:manage" \in k.scopes

AdminRequest(c) ==
    \/ \E scopes \in ScopeSets, e \in Expiries : admin_create_api_key(c, scopes, e)
    \/ admin_list_api_keys(c)
    \/ \E id \in KeyIds \cup {"k9"} : admin_revoke_api_key(c, id)
    \/ \E id \in KeyIds : admin_rotate_api_key(c, id)

\* C13: an admin endpoint admits a request only with the bootstrap key or a
\* database key holding keys:manage; every other request, in every deployment
\* mode, gets 401 and leaves the key table alone.
C13_AdminOnlyForManagers ==
    [][ \A c \in Credentials :
          (~AdminCredential(c) /\ AdminRequest(c)) =>
              (resp'.rc = 401 /\ api_keys' = api_keys)
      ]_vars

\* a valid wildcard key exists and a revocation request was refused
C13_WildcardKeyRefused ==
    /\ \E k \in api_keys : k.scopes = {"*"} /\ ~k.revoked /\ k.expires_at = NoInt
    /\ resp.op = "admin_revoke_api_key"
    /\ resp.rc = 401

\* the key's revoked_at is set, or its expires_at lies in the past
Stale(k) == k.revoked \/ (k.expires_at # NoInt /\ k.expires_at < now)

\* C14: whatever keys were created, rotated and revoked and however far the
\* clock advanced, the secret of a revoked or expired database key authorizes
\* nothing: the request gets the anonymous principal or 401, and the admin
\* gate refuses it.
C14_StaleKeyNeverAuthorizes ==
    \A k \in api_keys :
        Stale(k) =>
            /\ require_api_key(k.token) \in {Anonymous, Rejected(401)}
            /\ require_api_key(k.token) = Anonymous =>
                   (settings.api_key = "" /\ ~settings.require_api_key)
            /\ require_admin(k.token) = 401

\* a key that was used for a request has since been revoked, and the last
\* read was answered 401
C14_RevokedAfterUse ==
    /\ \E k \in api_keys :
          /\ k.revoked
          /\ \E e \in BagToSet(hist.log) : e.key_id = k.key_id
    /\ resp.op = "get_fax"
    /\ resp.rc = 401

\* scopes the non-admin routes ask for
RouteScopes == {"fax:send", "fax:read", "inbound:list", "inbound:read"}
Holds(info, scope) == scope \in info.scopes \/ "*" \in info.scopes

\* C20: a principal passes a scope requirement exactly when its scope set
\* holds the required scope or the wildcard; a keyed principal passes the
\* send and read routes when it holds the scope or the wildcard and is
\* rejected with 403 when it holds neither.
C20_ScopeOrWildcard ==
    \A c \in Credentials :
        LET info == require_api_key(c)
        IN info.rc = 200 =>
             /\ \A scope \in RouteScopes : _has_scope(info, scope) <=> Holds(info, scope)
             /\ info # Anonymous =>
                  /\ require_fax_send(c).rc = IF Holds(info, "fax:send") THEN 200 ELSE 403
                  /\ require_fax_read(c).rc = IF Holds(info, "fax:read") THEN 200 ELSE 403

\* a submission was refused with 403 while a valid key without fax:send exists
C20_KeyWithoutScopeRefused ==
    /\ \E k \in api_keys :
          /\ k.revoked = FALSE
          /\ k.scopes = {"keys:manage"}
          /\ require_fax_send(k.token).rc = 403
    /\ resp.op = "send_fax"
    /\ resp.rc = 403

\* the token stored with outbound job id, not expired, its PDF on disk
LiveOutboundToken(id, token) ==
    /\ id \in DOMAIN jobs
    /\ token # NoToken
    /\ token = jobs[id].pdf_token
    /\ now <= jobs[id].pdf_token_expires_at
    /\ <<"pdf", id>> \in files

\* the token stored with inbound fax id, not expired, its PDF in storage
LiveInboundToken(id, token) ==
    /\ id \in DOMAIN inbound
    /\ token # NoToken
    /\ token = inbound[id].pdf_token
    /\ now <= inbound[id].pdf_token_expires_at
    /\ <<"in", id>> \in files

\* C15: a request that presents a valid, unexpired artifact token and no API
\* key is served the artifact, for an outbound job and for an inbound fax, in
\* every deployment mode.
C15_TokenAloneFetches ==
    [][ /\ \A id \in 1..MaxWebhookJobs, token \in ArtifactTokens :
             (LiveOutboundToken(id, token) /\ get_fax_pdf(id, token)) => resp'.rc = 200
        /\ \A id \in 1..MaxInbound, token \in ArtifactTokens :
             (LiveInboundToken(id, token) /\ get_inbound_pdf(id, token, NULL)) =>
                 resp'.rc = 200
      ]_vars

\* the authentication checks of the endpoint refuse the request
AuthenticationFails(req) ==
    IF req.op = "phaxio_inbound"
    THEN PhaxioSignatureCheck(settings.phaxio_inbound_verify_signature,
                              req.sig, req.body) # ""
    ELSE SinchAuthCheck(req.basic, req.sig, req.body) # ""

\* C16: an inbound webhook endpoint answers with an error status only when
\* authentication fails, and then with 401; every other push, in every
\* configuration, is answered 200 with status ok or ignored.
C16_HardErrorOnlyForAuth ==
    [][ \A req \in SignedInboundRequests("phaxio_inbound")
                     \cup SignedInboundRequests("sinch_inbound") :
          (phaxio_inbound(req) \/ sinch_inbound(req)) =>
              IF resp'.rc = 200
              THEN resp'.detail \in {"ok", "ignored"}
              ELSE resp'.rc = 401 /\ AuthenticationFails(req)
      ]_vars

SuccessForRunningJob(req) ==
    /\ req.body.status = "success"
    /\ req.job_id \in DOMAIN jobs
    /\ jobs[req.job_id].status = "in_progress"

SuccessRecorded(req) ==
    /\ jobs'[req.job_id].status = "SUCCESS"
    /\ jobs'[req.job_id].pages = req.body.pages
    /\ resp'.rc = 200
    /\ resp'.detail = "ok"

ReadsJob ==
    \/ \E key \in ReadKeys, id \in 1..MaxWebhookJobs : GetFax(key, id)
    \/ \E key \in ReadKeys, id \in 1..MaxWebhookJobs : get_admin_job(key, id)
    \/ \E key \in ReadKeys, offset \in 0..MaxWebhookJobs : list_admin_jobs(key, offset)

\* C19: on GET /fax/{id}, the admin job list and the admin job detail, the
\* error text in the response is the sanitized form of the stored text
\* (digit runs of six or more replaced, at most 80 characters), and the
\* stored text is left as it was.
C19_ErrorSanitizedOnEveryRead ==
    [][ (ReadsJob /\ resp'.rc = 200 /\ resp'.id \in DOMAIN jobs) =>
            /\ resp'.error = sanitize_error(jobs[resp'.id].error)
            /\ jobs' = jobs
      ]_vars

\* the admin routes alone serve the sanitized text
C19_AdminReadsSanitized ==
    [][ \A key \in ReadKeys :
          ( /\ \/ \E id \in 1..MaxWebhookJobs : get_admin_job(key, id)
               \/ \E offset \in 0..MaxWebhookJobs : list_admin_jobs(key, offset)
            /\ resp'.rc = 200 /\ resp'.id \in DOMAIN jobs ) =>
              /\ resp'.error = sanitize_error(jobs[resp'.id].error)
              /\ jobs' = jobs
      ]_vars

\* dev mode: no bootstrap key and enforcement off
DevMode == settings.api_key = "" /\ ~settings.require_api_key

\* C21: in dev mode a request without a credential is never rate limited:
\* whatever the limit and however many requests the window has seen, it is
\* not answered 429 and it creates or increments no bucket.
C21_AnonymousNeverLimited ==
    [][ ( /\ DevMode
          /\ \/ \E to \in {ValidTo, InvalidTo} : SendFax(NULL, to, "pdf")
             \/ GetFax(NULL, 1) ) =>
            /\ resp'.rc # 429
            /\ rate_buckets' = rate_buckets
      ]_vars

\* with a limit of one request per minute, a submission and a read were
\* both served without a credential, and no key has made a request
C21_AnonymousServedPastLimit ==
    /\ DevMode
    /\ settings.max_requests_per_minute = 1
    /\ Len(jobs) = 1
    /\ hist.log = EmptyBag
    /\ rate_buckets = <<>>
    /\ resp.op = "get_fax"
    /\ resp.rc = 200

JobStatusValues == {"queued", "in_progress", "SUCCESS", "FAILED", "failed", "disabled"}

\* C22: the status of every outbound job is always one of queued,
\* in_progress, SUCCESS, FAILED, failed, disabled, whatever status strings
\* backend responses, status callbacks and result events carry.
C22_StatusInEnum ==
    \A id \in DOMAIN jobs : jobs[id].status \in JobStatusValues

\* C23: every outbound job and every inbound fax that holds an access token
\* also holds a token expiry.
C23_TokenHasExpiry ==
    /\ \A id \in DOMAIN jobs :
          jobs[id].pdf_token # NoToken => jobs[id].pdf_token_expires_at # NoInt
    /\ \A id \in DOMAIN inbound :
          inbound[id].pdf_token # NoToken => inbound[id].pdf_token_expires_at # NoInt

\* an outbound job and an inbound fax both hold a token
C23_BothHoldTokens ==
    /\ \E id \in DOMAIN jobs : jobs[id].pdf_token # NoToken
    /\ \E id \in DOMAIN inbound : inbound[id].pdf_token # NoToken

\* C24: once the pages field or the provider_sid field of an outbound job
\* holds a value, no later write of the dispatch task, a status callback or a
\* result event makes that field empty again.
C24_PagesAndSidStaySet ==
    [][ \A id \in DOMAIN jobs :
          /\ jobs[id].pages # NoInt => jobs'[id].pages # NoInt
          /\ jobs[id].provider_sid \notin {NULL, ""} =>
                 jobs'[id].provider_sid \notin {NULL, ""}
      ]_vars

\* a job that holds a provider_sid and a page count has since been written
\* by a status callback
C24_WrittenAfterSidSet ==
    \E id \in DOMAIN jobs :
        /\ jobs[id].provider_sid = "px_1"
        /\ jobs[id].pages = 2
        /\ jobs[id].status = "FAILED"
        /\ resp.op = "phaxio_callback"
\* C25: every write of the dispatch task, a status webhook or a telephony
\* result event that changes a field of a job sets its updated_at to the clock
\* value at that write, so updated_at never decreases and is never older than
\* the job's latest field change.
C25_UpdatedAtIsWriteTime ==
    [][ \A id \in DOMAIN jobs :
          /\ jobs'[id] # jobs[id] => jobs'[id].updated_at = now'
          /\ jobs'[id].updated_at >= jobs[id].updated_at
      ]_vars

C25_WrittenAfterCreation ==
    \E id \in DOMAIN jobs :
        /\ jobs[id].status = "SUCCESS"
        /\ jobs[id].created_at < jobs[id].updated_at
        /\ jobs[id].updated_at < now

\* C26: no operation deletes an outbound job row or an inbound fax row: an id
\* that exists keeps existing, with the same recipient or provider id, across
\* submissions, dispatch outcomes, webhooks and retention sweeps.
C26_RowsNeverDeleted ==
    [][ /\ \A id \in DOMAIN jobs :
              id \in DOMAIN jobs' /\ jobs'[id].to_number = jobs[id].to_number
        /\ \A id \in DOMAIN inbound :
              id \in DOMAIN inbound' /\ inbound'[id].provider_sid = inbound[id].provider_sid
      ]_vars

C26_RowsOutliveArtifacts ==
    /\ hist.swept > 0
    /\ \E id \in DOMAIN inbound : inbound[id].pdf_path = NULL /\ <<"in", id>> \notin files

\* C27: the completion write of a Phaxio dispatch and an applied status
\* callback for the same job are each one atomic step, in either order: the
\* completion leaves the job's pages and error as they were and stores the
\* provider's sid and status; the callback leaves provider_sid and the token
\* as they were and stores its own status, and its pages and error when it
\* carries them. A field both write therefore holds the later write's value.
C27_LastWriteWinsPerField ==
    [][ \A id \in DOMAIN jobs :
          /\ (tasks[id].method = "phaxio" /\ DispatchOk(id)) =>
                /\ jobs'[id].pages = jobs[id].pages
                /\ jobs'[id].error = jobs[id].error
                /\ jobs'[id].provider_sid \in ProviderSids
                /\ jobs'[id].status \in PhaxioSendStatuses
          /\ \A req \in JobStatusRequests :
                (req.job_id = id /\ PhaxioConfigured /\ phaxio_callback(req)) =>
                    LET info == handle_status_callback(req.body)
                    IN /\ jobs'[id].provider_sid = jobs[id].provider_sid
                       /\ jobs'[id].pdf_token = jobs[id].pdf_token
                       /\ jobs'[id].status = info.status
                       /\ jobs'[id].pages =
                              IF info.pages # 0 THEN info.pages ELSE jobs[id].pages
                       /\ jobs'[id].error =
                              IF info.error_message # NULL
                              THEN info.error_message ELSE jobs[id].error
      ]_vars

\* both writers have committed for one job: the sid of the completion and
\* the page count of a callback are both there
C27_CompletionAfterCallback ==
    \E id \in DOMAIN jobs :
        /\ tasks[id].method = "phaxio" /\ tasks[id].pc = "done"
        /\ jobs[id].provider_sid = "px_1"
        /\ jobs[id].pages = 2
        /\ jobs[id].status = "in_progress"

NotConfiguredMessages ==
    {"Phaxio is not properly configured", "Sinch Fax is not properly configured"}

\* C28: when the backend raises during dispatch, or is found not configured
\* when the task starts, the task ends with the job in status failed and its
\* error set to the exception's message, and the response the submission
\* already got is not touched.
C28_RaiseFailsJobWithMessage ==
    [][ \A id \in DOMAIN jobs :
          /\ DispatchRaise(id) =>
                /\ jobs'[id].status = "failed"
                /\ jobs'[id].error = "backend error"
                /\ tasks'[id].pc = "done"
                /\ resp' = resp
          /\ (DispatchStart(id) /\ tasks'[id].pc = "done") =>
                /\ jobs'[id].status = "failed"
                /\ jobs'[id].error \in NotConfiguredMessages
                /\ resp' = resp
      ]_vars

\* a send that raised after a callback had already reported success
C28_RaisedAfterAccepted ==
    \E id \in DOMAIN jobs :
        /\ tasks[id].pc = "done"
        /\ jobs[id].status = "failed"
        /\ jobs[id].error = "backend error"
        /\ jobs[id].pages = 2
        /\ resp.op = "phaxio_callback" /\ resp.rc = 200

\* C29: when the send of a cloud backend returns without raising, the write
\* that follows leaves the job in_progress or in a terminal state, never
\* queued.
C29_NotQueuedAfterSend ==
    [][ \A id \in DOMAIN jobs :
          (tasks[id].method \in {"phaxio", "sinch"} /\ DispatchOk(id)) =>
              jobs'[id].status \in {"in_progress", "SUCCESS", "FAILED"}
      ]_vars

\* C30: a dispatch task that handed its job to a backend and has ended has
\* emitted one attempt event followed by exactly one outcome event, whether
\* the send returned or raised.
C30_AttemptThenOneOutcome ==
    [][ \A id \in DOMAIN tasks :
          (tasks[id].pc = "awaiting" /\ tasks'[id].pc = "done") =>
              /\ Len(tasks'[id].audit) = 2
              /\ tasks'[id].audit[1] = "job_dispatch"
              /\ tasks'[id].audit[2] # "job_dispatch"
      ]_vars


\* C31: the dispatch of a job starts only after its queued row is committed
\* and is not awaited by the request: an accepted submission answers with the
\* row it has just stored while the task has not begun, and no step of a
\* dispatch task touches a response.
C31_DispatchDetachedFromRequest ==
    [][ /\ Len(jobs') = Len(jobs) + 1 =>
              LET id == Len(jobs')
              IN /\ resp'.op = "send_fax" /\ resp'.rc = 202 /\ resp'.id = id
                 /\ resp'.status = jobs'[id].status
                 /\ jobs'[id].status = SubmitStatus
                 /\ tasks'[id].pc \in {"scheduled", "none"}
                 /\ tasks'[id].audit = <<>>
        /\ \A id \in DOMAIN tasks :
              tasks'[id] # tasks[id] => (id \in DOMAIN jobs /\ resp' = resp)
      ]_vars

\* the response of the submission still says queued after the dispatch failed
C31_ResponseOutlivedByDispatch ==
    /\ resp.op = "send_fax" /\ resp.rc = 202 /\ resp.status = "queued"
    /\ resp.id \in DOMAIN jobs
    /\ jobs[resp.id].status = "failed"
    /\ tasks[resp.id].pc = "done"

C33_ElapsedEventuallyReclaimed ==
    /\ \A i \in 1..MaxInbound :
          (i \in DOMAIN inbound /\ RetentionElapsed(inbound[i]))
              ~> (/\ i \in DOMAIN inbound
                  /\ inbound[i].pdf_path = NULL
                  /\ <<"in", i>> \notin files)
    /\ \A id \in 1..MaxWebhookJobs :
          (id \in DOMAIN jobs /\ settings.artifact_ttl_days > 0 /\ Reclaimable(id))
              ~> (\A f \in files : f[1] = "in" \/ f[2] # id)

\* the request of a key that holds `scope` is rejected with 429 exactly when
\* it is beyond `limit` requests of that key on `path` in the current window
LimitedBy(x_api_key, scope, path, limit) ==
    LET info == require_api_key(x_api_key)
        count == BumpBucket(PruneBuckets(rate_buckets), <<info.key_id, path>>).count
    IN (info.rc = 200 /\ _has_scope(info, scope)) =>
           ((resp'.rc = 429) <=> OverLimit(count, limit))

\* C34: every request is admitted or rejected according to the limit its
\* route has in the settings at that request, also after a reload changed
\* it: inbound_list_rpm for GET /inbound, inbound_get_rpm for
\* GET /inbound/{id}, max_requests_per_minute for GET /fax/{id}.
C34_LimitReadAtEachRequest ==
    [][ \A key \in ReloadKeys :
          /\ list_inbound(key) =>
                LimitedBy(key, "inbound:list", "/inbound", settings.inbound_list_rpm)
          /\ get_inbound(key, 1) =>
                LimitedBy(key, "inbound:read", "/inbound/{id}", settings.inbound_get_rpm)
          /\ GetFax(key, 1) =>
                LimitedBy(key, "fax:read", "/fax/{id}", settings.max_requests_per_minute)
      ]_vars

\* C35: when an inbound webhook has been acknowledged with status ok and no
\* delivery is still being handled, every receipt has its inbound fax: a row
\* of the same backend with the receipt's provider_sid.
C35_AckedReceiptHasFax ==
    (resp.op \in {"phaxio_inbound", "sinch_inbound"} /\ resp.rc = 200
        /\ resp.detail = "ok" /\ handlers = {}) =>
        \A k \in events :
            \E i \in DOMAIN inbound :
                /\ inbound[i].provider_sid = k[1]
                /\ inbound[i].backend = Backend(k[2])

\* C36: a file of an outbound job disappears only when that job is in a
\* final status and its updated_at is older than the cutoff: no pass removes
\* a file of a queued or in_progress job, however old, or of a terminal job
\* newer than the cutoff.
C36_OnlyOldTerminalJobsSwept ==
    [][ \A f \in files \ files' :
          f[1] # "in" =>
              /\ jobs[f[2]].status \in final_statuses
              /\ jobs[f[2]].updated_at < Cutoff
      ]_vars

\* a pass has run long after an in_progress job was last written, and the
\* job still has its PDF
C36_OldUnfinishedJobKept ==
    /\ settings.artifact_ttl_days > 0
    /\ \E id \in DOMAIN jobs :
          /\ jobs[id].status = "in_progress"
          /\ hist.swept # NoInt
          /\ jobs[id].updated_at < hist.swept - settings.artifact_ttl_days * SecondsPerDay
          /\ <<"pdf", id>> \in files

\* the requests the table b has counted for bucket_key in the current
\* window, which decides the admission of the next one
CountOf(b, bucket_key) ==
    IF bucket_key \in DOMAIN b /\ b[bucket_key].window = now_min
    THEN b[bucket_key].count ELSE 0

BucketKeys == {<<k, p>> : k \in {"env", "k1"}, p \in {"/fax", "/fax/{id}"}}

\* C37: buckets are independent per (key, route): within a window, a request
\* changes the count, and with it the admission outcome, of no bucket but
\* the one of its own key and route.
C37_BucketsIndependent ==
    [][ now' = now =>
          \A bk \in BucketKeys :
              CountOf(rate_buckets', bk) # CountOf(rate_buckets, bk) =>
                  hist'.log = hist.log (+) SetToBag({LogEntry(bk[1], bk[2])})
      ]_vars

\* one key is over the limit on one route while another key and another
\* route are still being counted from their own requests
C37_OneBucketFullOthersNot ==
    /\ settings.max_requests_per_minute = 1
    /\ <<"env", "/fax">> \in DOMAIN rate_buckets
    /\ <<"k1", "/fax">> \in DOMAIN rate_buckets
    /\ <<"env", "/fax/{id}">> \in DOMAIN rate_buckets
    /\ rate_buckets[<<"env", "/fax">>] = [window |-> now_min, count |-> 2]
    /\ rate_buckets[<<"k1", "/fax">>] = [window |-> now_min, count |-> 1]
    /\ rate_buckets[<<"env", "/fax/{id}">>] = [window |-> now_min, count |-> 1]
    /\ resp.rc # 429

\* the outcome of a request of `key` on `path`, given the requests of that
\* key on that route already logged in the current window: rejected when
\* more than the limit were logged (one of them was rejected), admitted by
\* the limiter when none was
StaysRejectedOrStartsFresh(key, path) ==
    LET seen == CopiesIn(LogEntry(require_api_key(key).key_id, path), hist.log)
    IN /\ seen > settings.max_requests_per_minute => resp'.rc = 429
       /\ seen = 0 => resp'.rc # 429

\* C38: for a limit N > 0, once a request of a key on a route was rejected in
\* a window, every further request of that key on that route in that window
\* is rejected, and its first request in another window is admitted: counts
\* do not carry over.
C38_RejectedUntilNextWindow ==
    [][ \A key \in RateKeys :
          (Authenticated(key) /\ settings.max_requests_per_minute > 0) =>
              /\ (\E to \in {ValidTo, InvalidTo} : SendFax(key, to, "pdf"))
                    => StaysRejectedOrStartsFresh(key, "/fax")
              /\ GetFax(key, 1) => StaysRejectedOrStartsFresh(key, "/fax/{id}")
      ]_vars

\* a key was rejected in the first window and its first request of the
\* second window has just been served
C38_AdmittedInNextWindow ==
    /\ settings.max_requests_per_minute > 0
    /\ now_min = 1
    /\ resp.op = "get_fax" /\ resp.rc # 429
    /\ \E e \in BagToSet(hist.log) :
          /\ e.window = 0 /\ e.path = "/fax/{id}"
          /\ CopiesIn(e, hist.log) > settings.max_requests_per_minute
          /\ CopiesIn([e EXCEPT !.window = 1], hist.log) = 1
          /\ BagCardinality(hist.log) = CopiesIn(e, hist.log) + 1

\* C39: while sending is disabled no dispatch task is scheduled for a
\* submitted job, and every step that is not a status webhook (telephony
\* events are not listened to) leaves each job row exactly as it was.
C39_DisabledJobsNeverDispatched ==
    [][ settings.fax_disabled =>
          /\ \A id \in DOMAIN tasks' : tasks'[id].pc = "none"
          /\ (~ \E req \in JobStatusRequests : phaxio_callback(req)) =>
                \A id \in DOMAIN jobs : jobs'[id] = jobs[id]
      ]_vars

\* a job submitted while sending is disabled is polled later, still as
\* submitted and with no task
C39_DisabledJobPolled ==
    /\ settings.fax_disabled
    /\ resp.op = "get_fax" /\ resp.rc = 200
    /\ jobs[resp.id].status = SubmitStatus
    /\ jobs[resp.id].provider_sid = NULL
    /\ jobs[resp.id].pdf_token = NoToken
    /\ tasks[resp.id].pc = "none"

\* C40: a second pass run immediately after a first one changes nothing the
\* first left: no file, no pdf_path or tiff_path, no status of an inbound
\* fax (a pass writes no job row at all).
C40_SecondPassChangesNothing ==
    settings.artifact_ttl_days > 0 =>
        LET files1 == SweptFiles(files, inbound)
            inbound1 == SweptRows(inbound)
            files2 == SweptFiles(files1, inbound1)
            inbound2 == SweptRows(inbound1)
        IN /\ files2 = files1
           /\ \A i \in DOMAIN inbound :
                 /\ inbound2[i].pdf_path = inbound1[i].pdf_path
                 /\ inbound2[i].tiff_path = inbound1[i].tiff_path
                 /\ inbound2[i].status = inbound1[i].status

\* a first pass has just run at the current clock value and reclaimed the
\* files of a failed job and the PDF of an inbound fax past its retention
C40_FirstPassReclaimed ==
    /\ hist.swept = now
    /\ \E id \in DOMAIN jobs :
          /\ Reclaimable(id)
          /\ {<<"pdf", id>>, <<"tiff", id>>, <<"orig", id>>} \cap files = {}
    /\ \E i \in DOMAIN inbound :
          /\ RetentionElapsed(inbound[i])
          /\ inbound[i].pdf_path = NULL
          /\ inbound[i].updated_at = now
          /\ <<"in", i>> \notin files
====
